---- MODULE Spec2Model ----
(***************************************************************************)
(* Model of the structured-data extraction and summarisation layer of the  *)
(* travel planner: extract_map_data and get_location_summaries (maps.py).  *)
(* Texts are sequences of one-character strings; regular expressions are   *)
(* modelled by the scans they perform.                                     *)
(***************************************************************************)
EXTENDS Integers, Sequences, FiniteSets, TLC

VARIABLES
    ex_src,      \* the lines the input text of extract_map_data is made of
    ex_text,     \* text
    ex_matches,  \* matches = re.findall(pattern, text)
    ex_idx,      \* position of the for loop in matches
    ex_data,     \* data
    ex_pc        \* "start" | "loop" | "done" | "idle"

exVars == <<ex_src, ex_text, ex_matches, ex_idx, ex_data, ex_pc>>

VARIABLES
    rs_text,        \* text, the guide
    rs_names,       \* names
    rs_clean,       \* clean_text
    rs_sentences,   \* sentences
    rs_lines,       \* lines
    rs_paragraphs,  \* paragraphs
    rs_i,           \* position of "for name in names"
    rs_desc,        \* desc
    rs_tried,       \* the strategies consulted for the current name, in order
    rs_summaries,   \* summaries
    rs_llm_calls,   \* the calls of generate_place_summary made so far
    rs_pc           \* control position in get_location_summaries, or "idle"

rsVars == <<rs_text, rs_names, rs_clean, rs_sentences, rs_lines, rs_paragraphs,
            rs_i, rs_desc, rs_tried, rs_summaries, rs_llm_calls, rs_pc>>

VARIABLES
    gs_response,  \* what run_gen_response does: [kind |-> "text", text |-> ...] or [kind |-> "raise"]
    gs_clean,     \* clean
    gs_result,    \* the value generate_place_summary returns
    gs_pc         \* "start" | "called" | "raised" | "done" | "idle"

gsVars == <<gs_response, gs_clean, gs_result, gs_pc>>

VARIABLES
    rl_now,       \* the last reading of time.time()
    rl_storage,   \* rate_limit_storage
    rl_admitted,  \* per IP, the times of the requests check_rate_limit let through
    rl_last,      \* the last request answered: its IP, its time and its status
    rl_count      \* the requests made so far

rlVars == <<rl_now, rl_storage, rl_admitted, rl_last, rl_count>>

\* the pages of ui.py and app.py
VARIABLES
    ui_widgets,   \* the page chosen in the sidebar and the two select boxes
    ui_session,   \* st.session_state: the keys it holds and their values
    ui_saved      \* the rows save_itinerary has written

uiVars == <<ui_widgets, ui_session, ui_saved>>

vars == <<exVars, rsVars, gsVars, rlVars, uiVars>>

(***************************************************************************)
(* Bounds                                                                  *)
(***************************************************************************)
MaxLines == 2
MaxGuideLines == 2
MaxNames == 2
MaxResponseLines == 2
MaxRequests == 7

(***************************************************************************)
(* Characters and character classes                                        *)
(***************************************************************************)
NL == "\n"

DigitChars == <<"0", "1", "2", "3", "4", "5", "6", "7", "8", "9">>

IsDigit(c) == \E n \in 1..10 : DigitChars[n] = c

DigitVal(c) == (CHOOSE n \in 1..10 : DigitChars[n] = c) - 1

IsSpace(c) == c \in {" ", NL, "\t"}

\* the characters outside ASCII that the texts use, by name
EAcute == "e-acute"
EnDash == "en-dash"
EmDash == "em-dash"
Bullet == "bullet"

UpperChars == <<"A", "B", "C", "D", "E", "F", "G", "H", "I", "J", "K", "L", "M",
                "N", "O", "P", "Q", "R", "S", "T", "U", "V", "W", "X", "Y", "Z">>

LowerChars == <<"a", "b", "c", "d", "e", "f", "g", "h", "i", "j", "k", "l", "m",
                "n", "o", "p", "q", "r", "s", "t", "u", "v", "w", "x", "y", "z">>

IsUpper(c) == \E n \in 1..26 : UpperChars[n] = c

IsLetter(c) == IsUpper(c) \/ (\E n \in 1..26 : LowerChars[n] = c) \/ c = EAcute

\* \w
IsWordChar(c) == IsLetter(c) \/ IsDigit(c) \/ c = "_"

LowerChar(c) == IF IsUpper(c) THEN LowerChars[CHOOSE n \in 1..26 : UpperChars[n] = c] ELSE c

\* str.lower()
Lower(s) == [i \in 1..Len(s) |-> LowerChar(s[i])]

IsNameChar(c) == c # "|" /\ c # NL

IsDecor(c) == c \in {"*", "-", "[", "]"}

\* t[i], or "" past either end of t
At(t, i) == IF i >= 1 /\ i <= Len(t) THEN t[i] ELSE ""

\* the first position >= p of t outside the class (Len(t)+1 when the run
\* reaches the end), in[i] telling whether t[i] is in the class: a greedy
\* run of the class from p
RunEnd(t, p, in) ==
    CHOOSE i \in p..(Len(t) + 1) :
        /\ (i = Len(t) + 1 \/ ~in[i])
        /\ \A j \in p..(i - 1) : in[j]

SkipSpaces(t, p) == RunEnd(t, p, [i \in 1..Len(t) |-> IsSpace(t[i])])

RECURSIVE Join(_, _)
Join(ss, sep) ==
    IF ss = <<>> THEN <<>>
    ELSE IF Len(ss) = 1 THEN ss[1]
    ELSE ss[1] \o sep \o Join(Tail(ss), sep)

\* str.strip()
Strip(s) ==
    LET a == RunEnd(s, 1, [i \in 1..Len(s) |-> IsSpace(s[i])])
        b == IF a > Len(s) THEN a - 1
             ELSE CHOOSE i \in a..Len(s) :
                    ~IsSpace(s[i]) /\ \A j \in (i + 1)..Len(s) : IsSpace(s[j])
    IN  SubSeq(s, a, b)

IsNotNL(c) == c # NL

\* the end of the line p stands on: the position of its newline, or Len(t)+1
LineEnd(t, p) == RunEnd(t, p, [i \in 1..Len(t) |-> IsNotNL(t[i])])

\* ^ under re.M
AtLineStart(t, s) == s = 1 \/ t[s - 1] = NL

\* the literal w at position p of t, compared as re.I compares
MatchesCI(t, p, w) ==
    /\ p >= 1
    /\ p + Len(w) - 1 <= Len(t)
    /\ \A i \in 1..Len(w) : LowerChar(t[p + i - 1]) = LowerChar(w[i])

\* needle in hay
Contains(hay, needle) ==
    \E p \in 1..(Len(hay) - Len(needle) + 1) :
        \A i \in 1..Len(needle) : hay[p + i - 1] = needle[i]

\* re.sub(pattern, "", t) from pos on, ends[p] being the position after the
\* match of the pattern at p (0: no match at p)
RECURSIVE RemoveSpans(_, _, _)
RemoveSpans(t, ends, pos) ==
    IF pos > Len(t) THEN <<>>
    ELSE IF ends[pos] > pos THEN RemoveSpans(t, ends, ends[pos])
    ELSE <<t[pos]>> \o RemoveSpans(t, ends, pos + 1)

(***************************************************************************)
(* extract_map_data                                                        *)
(***************************************************************************)

\* -?\d+\.?\d+ from p: the position after the match, 0 when there is none.
\* The two \d+ need two digits between them unless a "." separates them.
NumEnd(t, p) ==
    LET d0 == IF At(t, p) = "-" THEN p + 1 ELSE p
        d1 == RunEnd(t, d0, [i \in 1..Len(t) |-> IsDigit(t[i])])
        f0 == d1 + 1
        f1 == RunEnd(t, f0, [i \in 1..Len(t) |-> IsDigit(t[i])])
    IN  IF d0 > Len(t) \/ d1 = d0 THEN 0
        ELSE IF At(t, d1) = "." /\ f1 > f0 THEN f1
        ELSE IF d1 - d0 >= 2 THEN d1
        ELSE 0

NoMatch == [ok |-> FALSE, g1 |-> <<>>, g2 |-> <<>>, g3 |-> <<>>, end |-> 0]

\* MatchAt with the third field forgotten: name | number alone matches
MatchAtTwoFields(t, s) ==
    LET e == RunEnd(t, s, [i \in 1..Len(t) |-> IsNameChar(t[i])])
        a == SkipSpaces(t, e + 1)
        b == NumEnd(t, a)
    IN  IF e = s \/ At(t, e) # "|" \/ b = 0 THEN NoMatch
        ELSE [ok |-> TRUE, g1 |-> SubSeq(t, s, e - 1), g2 |-> SubSeq(t, a, b - 1),
              g3 |-> SubSeq(t, a, b - 1), end |-> b]

\* ([^|\n]+)\|\s*(-?\d+\.?\d+)\s*\|\s*(-?\d+\.?\d+) anchored at s
MatchAt(t, s) ==
    LET e == RunEnd(t, s, [i \in 1..Len(t) |-> IsNameChar(t[i])])
        a == SkipSpaces(t, e + 1)
        b == NumEnd(t, a)
        c == SkipSpaces(t, b)
        d == SkipSpaces(t, c + 1)
        f == NumEnd(t, d)
    IN  IF e = s \/ At(t, e) # "|" THEN NoMatch
        ELSE IF b = 0 THEN NoMatch
        ELSE IF At(t, c) # "|" THEN NoMatch
        ELSE IF f = 0 THEN NoMatch
        ELSE [ok |-> TRUE, g1 |-> SubSeq(t, s, e - 1), g2 |-> SubSeq(t, a, b - 1),
              g3 |-> SubSeq(t, d, f - 1), end |-> f]

\* re.findall: leftmost, non-overlapping matches from pos on
RECURSIVE FindAll(_, _)
FindAll(t, pos) ==
    IF pos > Len(t) THEN <<>>
    ELSE LET m == MatchAt(t, pos)
         IN  IF m.ok THEN <<m>> \o FindAll(t, m.end)
             ELSE FindAll(t, pos + 1)

\* CleanName removing the decoration at the two ends of the name only
RECURSIVE CleanNameEndsOnly(_)
CleanNameEndsOnly(raw) ==
    LET s == Strip(raw)
    IN  IF s # <<>> /\ IsDecor(s[1]) THEN CleanNameEndsOnly(Tail(s))
        ELSE IF s # <<>> /\ IsDecor(s[Len(s)]) THEN CleanNameEndsOnly(SubSeq(s, 1, Len(s) - 1))
        ELSE s

\* re.sub(r"[\*\-\[\]]", "", raw_name.strip()).strip()
CleanName(raw) == Strip(SelectSeq(Strip(raw), LAMBDA c : ~IsDecor(c)))

RECURSIVE DigitsVal(_)
DigitsVal(ds) ==
    IF ds = <<>> THEN 0
    ELSE 10 * DigitsVal(SubSeq(ds, 1, Len(ds) - 1)) + DigitVal(ds[Len(ds)])

RECURSIVE Pow10(_)
Pow10(k) == IF k = 0 THEN 1 ELSE 10 * Pow10(k - 1)

\* a decimal value m / 10^k in lowest 10-power terms, so that 48.0 = 48
RECURSIVE Norm(_, _)
Norm(m, k) == IF k > 0 /\ m % 10 = 0 THEN Norm(m \div 10, k - 1) ELSE <<m, k>>

ValueError == <<"ValueError">>

\* float(s) on a decimal literal: sign, digits, optional point and digits
ParseFloat(s) ==
    LET neg == At(s, 1) = "-"
        d0 == IF neg \/ At(s, 1) = "+" THEN 2 ELSE 1
        d1 == RunEnd(s, d0, [i \in 1..Len(s) |-> IsDigit(s[i])])
        dot == At(s, d1) = "."
        f0 == IF dot THEN d1 + 1 ELSE d1
        f1 == RunEnd(s, f0, [i \in 1..Len(s) |-> IsDigit(s[i])])
        ip == SubSeq(s, d0, d1 - 1)
        fp == SubSeq(s, f0, f1 - 1)
        mag == DigitsVal(ip) * Pow10(Len(fp)) + DigitsVal(fp)
    IN  IF d0 > Len(s) + 1 \/ f1 # Len(s) + 1 \/ Len(ip) + Len(fp) = 0 THEN ValueError
        ELSE Norm(IF neg THEN 0 - mag ELSE mag, Len(fp))

\* lo <= v <= hi for a decimal v = <<m, k>> and integers lo, hi
Between(lo, v, hi) == lo * Pow10(v[2]) <= v[1] /\ v[1] <= hi * Pow10(v[2])

\* LoopBody without the range test
LoopBodyNoRange(data, match) ==
    LET lat == ParseFloat(match.g2)
        lon == ParseFloat(match.g3)
    IN  IF lat = ValueError \/ lon = ValueError THEN data
        ELSE Append(data, [name |-> CleanName(match.g1), lat |-> lat, lon |-> lon])

\* LoopBody dropping a row that data already holds
LoopBodyDedup(data, match) ==
    LET row == [name |-> CleanName(match.g1), lat |-> ParseFloat(match.g2),
                lon |-> ParseFloat(match.g3)]
    IN  IF row.lat = ValueError \/ row.lon = ValueError THEN data
        ELSE IF Between(-90, row.lat, 90) /\ Between(-180, row.lon, 180)
                /\ \A i \in 1..Len(data) : data[i] # row
             THEN Append(data, row)
             ELSE data

\* the body of "for match in matches": the rows data holds after it
LoopBody(data, match) ==
    LET name == CleanName(match.g1)
        lat == ParseFloat(match.g2)
        lon == ParseFloat(match.g3)
    IN  IF lat = ValueError \/ lon = ValueError THEN data
        ELSE IF Between(-90, lat, 90) /\ Between(-180, lon, 180)
             THEN Append(data, [name |-> name, lat |-> lat, lon |-> lon])
             ELSE data

(***************************************************************************)
(* The input texts of extract_map_data: lines joined by newlines           *)
(***************************************************************************)

\* kind "triple": raw name, separator, latitude and longitude as written, with
\* the name and the values a reader takes them to denote; kind "plain": any text
TripleLine(raw, clean, sep, lat, latv, lon, lonv, tail) ==
    [kind |-> "triple", raw |-> raw, clean |-> clean, sep |-> sep,
     lat |-> lat, latv |-> latv, lon |-> lon, lonv |-> lonv, tail |-> tail]

PlainLine(s) ==
    [kind |-> "plain", raw |-> s, clean |-> <<>>, sep |-> <<>>,
     lat |-> <<>>, latv |-> <<0, 0>>, lon |-> <<>>, lonv |-> <<0, 0>>, tail |-> <<>>]

LinePool ==
    << \* Ab | 48.5 | 12
       TripleLine(<<"A", "b">>, <<"A", "b">>, <<" ", "|", " ">>,
                  <<"4", "8", ".", "5">>, <<485, 1>>, <<"1", "2">>, <<12, 0>>, <<>>),
       \* **[Cd]** | -34.6 | -58.30
       TripleLine(<<"*", "*", "[", "C", "d", "]", "*", "*">>, <<"C", "d">>,
                  <<" ", "|", " ">>, <<"-", "3", "4", ".", "6">>, <<-346, 1>>,
                  <<"-", "5", "8", ".", "3", "0">>, <<-583, 1>>, <<>>),
       \* - E-F|90|-180 ok
       TripleLine(<<"-", " ", "E", "-", "F">>, <<"E", "F">>, <<"|">>,
                  <<"9", "0">>, <<90, 0>>, <<"-", "1", "8", "0">>, <<-180, 0>>,
                  <<" ", "o", "k">>),
       \* ** | 12 | 48.5
       TripleLine(<<"*", "*">>, <<>>, <<" ", "|", " ">>,
                  <<"1", "2">>, <<12, 0>>, <<"4", "8", ".", "5">>, <<485, 1>>, <<>>),
       \* Ab | 5 | 7
       TripleLine(<<"A", "b">>, <<"A", "b">>, <<" ", "|", " ">>,
                  <<"5">>, <<5, 0>>, <<"7">>, <<7, 0>>, <<>>),
       \* Gh | 95.0 | 12
       TripleLine(<<"G", "h">>, <<"G", "h">>, <<" ", "|", " ">>,
                  <<"9", "5", ".", "0">>, <<95, 0>>, <<"1", "2">>, <<12, 0>>, <<>>),
       \* Gh | 48.5 | 185.0
       TripleLine(<<"G", "h">>, <<"G", "h">>, <<" ", "|", " ">>,
                  <<"4", "8", ".", "5">>, <<485, 1>>,
                  <<"1", "8", "5", ".", "0">>, <<185, 0>>, <<>>),
       \* Gh | -91 | -180
       TripleLine(<<"G", "h">>, <<"G", "h">>, <<" ", "|", " ">>,
                  <<"-", "9", "1">>, <<-91, 0>>, <<"-", "1", "8", "0">>, <<-180, 0>>, <<>>),
       \* Gh | ab | 12
       PlainLine(<<"G", "h", " ", "|", " ", "a", "b", " ", "|", " ", "1", "2">>),
       \* Gh | 48.5 | ab
       PlainLine(<<"G", "h", " ", "|", " ", "4", "8", ".", "5", " ", "|", " ", "a", "b">>),
       \* Gh 48.5 12.
       PlainLine(<<"G", "h", " ", "4", "8", ".", "5", " ", "1", "2", ".">>) >>

RenderLine(l) ==
    IF l.kind = "plain" THEN l.raw
    ELSE l.raw \o l.sep \o l.lat \o l.sep \o l.lon \o l.tail

RenderText(src) == Join([i \in 1..Len(src) |-> RenderLine(LinePool[src[i]])], <<NL>>)

RECURSIVE SeqsUpTo(_, _)
SeqsUpTo(S, n) ==
    IF n = 0 THEN {<<>>}
    ELSE LET shorter == SeqsUpTo(S, n - 1)
         IN  shorter \cup {Append(s, x) : s \in {q \in shorter : Len(q) = n - 1}, x \in S}

RsIdle ==
    /\ rs_text = <<>> /\ rs_names = <<>> /\ rs_clean = <<>>
    /\ rs_sentences = <<>> /\ rs_lines = <<>> /\ rs_paragraphs = <<>>
    /\ rs_i = 0 /\ rs_desc = <<>> /\ rs_tried = <<>> /\ rs_summaries = <<>>
    /\ rs_llm_calls = <<>> /\ rs_pc = "idle"

GsIdle ==
    /\ gs_response = [kind |-> "none"] /\ gs_clean = <<>> /\ gs_result = <<>>
    /\ gs_pc = "idle"

RlIdle ==
    /\ rl_now = 0 /\ rl_storage = <<>> /\ rl_admitted = <<>>
    /\ rl_last = [kind |-> "none"] /\ rl_count = 0

UiIdle == ui_widgets = <<>> /\ ui_session = <<>> /\ ui_saved = {}

ExInit ==
    /\ RsIdle
    /\ GsIdle
    /\ RlIdle
    /\ UiIdle
    /\ ex_src \in SeqsUpTo(1..Len(LinePool), MaxLines)
    /\ ex_text = RenderText(ex_src)
    /\ ex_matches = <<>>
    /\ ex_idx = 0
    /\ ex_data = <<>>
    /\ ex_pc = "start"

\* matches = re.findall(pattern, text)
ExFindAll ==
    /\ ex_pc = "start"
    /\ ex_matches' = FindAll(ex_text, 1)
    /\ ex_idx' = 1
    /\ ex_pc' = "loop"
    /\ UNCHANGED <<ex_src, ex_text, ex_data>>
    /\ UNCHANGED <<rsVars, gsVars, rlVars, uiVars>>

\* one iteration of "for match in matches"
ExLoop ==
    /\ ex_pc = "loop"
    /\ ex_idx <= Len(ex_matches)
    /\ ex_data' = LoopBody(ex_data, ex_matches[ex_idx])
    /\ ex_idx' = ex_idx + 1
    /\ UNCHANGED <<ex_src, ex_text, ex_matches, ex_pc>>
    /\ UNCHANGED <<rsVars, gsVars, rlVars, uiVars>>

\* return pd.DataFrame(data) / pd.DataFrame(): the rows of data, possibly none
ExReturn ==
    /\ ex_pc = "loop"
    /\ ex_idx > Len(ex_matches)
    /\ ex_pc' = "done"
    /\ UNCHANGED <<ex_src, ex_text, ex_matches, ex_idx, ex_data>>
    /\ UNCHANGED <<rsVars, gsVars, rlVars, uiVars>>

ExNext == ExFindAll \/ ExLoop \/ ExReturn

SpecExtract == ExInit /\ [][ExNext]_vars

(***************************************************************************)
(* get_location_summaries: preprocessing                                   *)
(***************************************************************************)
COORDINATES == <<"C", "O", "O", "R", "D", "I", "N", "A", "T", "E", "S">>

IsHash(c) == c = "#"

IsPipe(c) == c = "|"

PipeCount(t, a, b) == Cardinality({i \in a..b : t[i] = "|"})

\* (?:\n(?:.*\|.*\|.*$))* from e on, e at the end of a line: the end of the
\* last of the following lines that hold two pipes
RECURSIVE PipeLinesEnd(_, _)
PipeLinesEnd(t, e) ==
    IF At(t, e) # NL THEN e
    ELSE LET f == LineEnd(t, e + 1)
         IN  IF PipeCount(t, e + 1, f - 1) >= 2 THEN PipeLinesEnd(t, f) ELSE e

\* (?mi)^\s*#{1,3}\s*COORDINATES.*$(?:\n(?:.*\|.*\|.*$))* at s: the position
\* after the match, 0 when there is none
CoordBlockEnd(t, s) ==
    LET h == SkipSpaces(t, s)
        k == RunEnd(t, h, [i \in 1..Len(t) |-> IsHash(t[i])])
        w == SkipSpaces(t, k)
    IN  IF ~AtLineStart(t, s) THEN 0
        ELSE IF k - h < 1 \/ k - h > 3 THEN 0
        ELSE IF ~MatchesCI(t, w, COORDINATES) THEN 0
        ELSE PipeLinesEnd(t, LineEnd(t, w + Len(COORDINATES)))

\* -?\d+\.?\d* from p: the position after the match, 0 when there is none
NumEndLoose(t, p) ==
    LET d0 == IF At(t, p) = "-" THEN p + 1 ELSE p
        d1 == RunEnd(t, d0, [i \in 1..Len(t) |-> IsDigit(t[i])])
    IN  IF d0 > Len(t) \/ d1 = d0 THEN 0
        ELSE IF At(t, d1) = "." THEN RunEnd(t, d1 + 1, [i \in 1..Len(t) |-> IsDigit(t[i])])
        ELSE d1

\* \s*$ under re.M from p: the position after the longest run of whitespace
\* that ends at the end of a line, 0 when there is none
SpacesToLineEnd(t, p) ==
    LET w == SkipSpaces(t, p)
        stops == {q \in p..w : q = Len(t) + 1 \/ At(t, q) = NL}
    IN  IF stops = {} THEN 0 ELSE CHOOSE q \in stops : \A r \in stops : r <= q

\* (?m)^[^\n|]+\|\s*-?\d+\.?\d*\s*\|\s*-?\d+\.?\d*\s*$ at s
CoordLineEnd(t, s) ==
    LET e == RunEnd(t, s, [i \in 1..Len(t) |-> IsNameChar(t[i])])
        a == SkipSpaces(t, e + 1)
        b == NumEndLoose(t, a)
        c == SkipSpaces(t, b)
        d == SkipSpaces(t, c + 1)
        f == NumEndLoose(t, d)
    IN  IF ~AtLineStart(t, s) THEN 0
        ELSE IF e = s \/ At(t, e) # "|" THEN 0
        ELSE IF b = 0 THEN 0
        ELSE IF At(t, c) # "|" THEN 0
        ELSE IF f = 0 THEN 0
        ELSE SpacesToLineEnd(t, f)

\* the two re.sub of clean_text
CleanText(text) ==
    LET t1 == RemoveSpans(text, [p \in 1..Len(text) |-> CoordBlockEnd(text, p)], 1)
    IN  RemoveSpans(t1, [p \in 1..Len(t1) |-> CoordLineEnd(t1, p)], 1)

IsSentenceEnd(c) == c \in {".", "!", "?"}

\* re.split(r'(?<=[.!?])\s+', t) from position from on
RECURSIVE SplitSentences(_, _)
SplitSentences(t, from) ==
    LET cuts == {p \in (from + 1)..Len(t) :
                    p > 1 /\ IsSpace(t[p]) /\ IsSentenceEnd(t[p - 1])}
        p == CHOOSE q \in cuts : \A r \in cuts : q <= r
    IN  IF cuts = {} THEN <<SubSeq(t, from, Len(t))>>
        ELSE <<SubSeq(t, from, p - 1)>> \o SplitSentences(t, SkipSpaces(t, p))

\* t.split(sep) from position from on, sep not empty
RECURSIVE SplitOn(_, _, _)
SplitOn(t, sep, from) ==
    LET cuts == {p \in from..(Len(t) - Len(sep) + 1) :
                    \A i \in 1..Len(sep) : t[p + i - 1] = sep[i]}
        p == CHOOSE q \in cuts : \A r \in cuts : q <= r
    IN  IF cuts = {} THEN <<SubSeq(t, from, Len(t))>>
        ELSE <<SubSeq(t, from, p - 1)>> \o SplitOn(t, sep, p + Len(sep))

\* [x.strip() for x in pieces if x.strip()]
StripNonEmpty(pieces) ==
    SelectSeq([i \in 1..Len(pieces) |-> Strip(pieces[i])], LAMBDA x : x # <<>>)

\* variant: accents are kept
keep_accents(s) == s

StripAccentChar(c) == IF c = EAcute THEN "e" ELSE c

\* ''.join(c for c in unicodedata.normalize('NFD', s) if category(c) != 'Mn')
strip_accents(s) == [i \in 1..Len(s) |-> StripAccentChar(s[i])]

(***************************************************************************)
(* get_location_summaries: the matching strategies                         *)
(***************************************************************************)
\* alias_map.get(name_l, [])
alias_map(name_l) ==
    IF name_l = <<"c", "o", "l", "o", "s", "s", "e", "u", "m">> THEN
        << <<"c", "o", "l", "o", "s", "s", "e", "o">>,
           <<"i", "l", " ", "c", "o", "l", "o", "s", "s", "e", "o">>,
           <<"c", "o", "l", "o", "s", "s", "e", "u", "m">> >>
    ELSE IF name_l = <<"g", "r", "a", "n", "d", " ", "p", "a", "l", "a", "c", "e">> THEN
        << <<"g", "r", "a", "n", "d", " ", "p", "a", "l", "a", "c", "e">>,
           <<"t", "h", "e", " ", "g", "r", "a", "n", "d", " ", "p", "a", "l", "a",
      "c", "e">> >>
    ELSE IF name_l = <<"e", "i", "f", "f", "e", "l", " ", "t", "o", "w", "e", "r">> THEN
        << <<"e", "i", "f", "f", "e", "l", " ", "t", "o", "w", "e", "r">>,
           <<"l", "a", " ", "t", "o", "u", "r", " ", "e", "i", "f", "f", "e", "l">>,
           <<"t", "o", "u", "r", " ", "e", "i", "f", "f", "e", "l">> >>
    ELSE <<>>

\* [:\-–—]
IsLabelSep(c) == c \in {":", "-", EnDash, EmDash}

\* the greatest element of a non-empty set of integers
Max(S) == CHOOSE x \in S : \A y \in S : y <= x

\* the least element of a non-empty set of integers
Min(S) == CHOOSE x \in S : \A y \in S : x <= y

\* the positions (?:\*\*|\*|\-|•\s*)* can reach from p0
LabelPrefixEnds(ln, p0) ==
    {q \in p0..(Len(ln) + 1) :
        \A i \in p0..(q - 1) :
            \/ ln[i] \in {"*", "-", Bullet}
            \/ /\ IsSpace(ln[i])
               /\ \E b \in p0..(i - 1) :
                     ln[b] = Bullet /\ \A j \in (b + 1)..(i - 1) : IsSpace(ln[j])}

\* NAME\s*[:\-–—]\s*(.+)$ at q: where group 1 starts, 0 when there is no match
LabelRestAt(ln, q, name) ==
    LET r == SkipSpaces(ln, q + Len(name))
        w == SkipSpaces(ln, r + 1)
    IN  IF MatchesCI(ln, q, name) /\ IsLabelSep(At(ln, r)) /\ w <= Len(ln) THEN w ELSE 0

\* label_re.match(ln).group(1).strip(), <<>> when label_re does not match
LabelMatch(ln, name) ==
    LET ok == {q \in LabelPrefixEnds(ln, SkipSpaces(ln, 1)) : LabelRestAt(ln, q, name) # 0}
    IN  IF ok = {} THEN <<>>
        ELSE Strip(SubSeq(ln, LabelRestAt(ln, Max(ok), name), Len(ln)))

\* the first element of seq that is not <<>>, <<>> when there is none
FirstNonEmpty(seq) ==
    LET hits == {i \in 1..Len(seq) : seq[i] # <<>>}
    IN  IF hits = {} THEN <<>> ELSE seq[Min(hits)]

\* strategy 1: the first line label_re matches
StrategyLabel(lines, name) ==
    FirstNonEmpty([i \in 1..Len(lines) |-> LabelMatch(lines[i], name)])

\* the positions from hi down to lo
Descending(lo, hi) == [i \in 1..(hi - lo + 1) |-> hi - i + 1]

\* \*\*?\s*[:\-–—]?\s*(.+) at n, the position after NAME: where group 1
\* starts, 0 when there is no match. The optional star and the optional
\* separator are taken when that leaves a character for the group.
BulletRestAt(ln, n) ==
    LET afterStar == IF At(ln, n + 1) = "*" THEN <<n + 2, n + 1>> ELSE <<n + 1>>
        start(x, takeSep) ==
            LET r == SkipSpaces(ln, x)
            IN  IF takeSep THEN (IF IsLabelSep(At(ln, r)) THEN SkipSpaces(ln, r + 1) ELSE 0)
                ELSE r
        tries == [k \in 1..(2 * Len(afterStar)) |->
                     start(afterStar[(k + 1) \div 2], k % 2 = 1)]
        good == {k \in 1..Len(tries) : tries[k] # 0 /\ tries[k] <= Len(ln)}
    IN  IF At(ln, n) # "*" \/ good = {} THEN 0 ELSE tries[Min(good)]

\* \*\s*\*\*?\s*NAME\*\*?\s*[:\-–—]?\s*(.+) at s: where group 1 starts, 0
\* when there is no match
BulletAt(ln, s, name) ==
    LET a == SkipSpaces(ln, s + 1)
        cands == (IF At(ln, a + 1) = "*"
                  THEN Descending(a + 2, SkipSpaces(ln, a + 2)) ELSE <<>>)
                 \o Descending(a + 1, SkipSpaces(ln, a + 1))
        good == {k \in 1..Len(cands) :
                    /\ MatchesCI(ln, cands[k], name)
                    /\ BulletRestAt(ln, cands[k] + Len(name)) # 0}
    IN  IF At(ln, s) # "*" \/ At(ln, a) # "*" \/ good = {} THEN 0
        ELSE BulletRestAt(ln, cands[Min(good)] + Len(name))

\* pattern.search(ln).group(1).strip(), <<>> when the pattern is not found
BulletMatch(ln, name) ==
    LET hits == {s \in 1..Len(ln) : BulletAt(ln, s, name) # 0}
    IN  IF hits = {} THEN <<>>
        ELSE Strip(SubSeq(ln, BulletAt(ln, Min(hits), name), Len(ln)))

\* strategy 2: the first line the bulleted pattern is found in
StrategyBullet(lines, name) ==
    FirstNonEmpty([i \in 1..Len(lines) |-> BulletMatch(lines[i], name)])

\* name_l in s or any(a in s for a in aliases)
Mentions(s, name_l, aliases) ==
    Contains(s, name_l) \/ \E k \in 1..Len(aliases) : Contains(s, aliases[k])

\* for idx, s in enumerate(keys): if <s mentions the name>: desc = values[idx]; break
FirstMention(keys, values, name_l, aliases) ==
    LET hits == {i \in 1..Len(keys) : Mentions(keys[i], name_l, aliases)}
    IN  IF hits = {} THEN <<>> ELSE values[Min(hits)]

StripAll(seq) == [i \in 1..Len(seq) |-> Strip(seq[i])]

LowerAll(seq) == [i \in 1..Len(seq) |-> Lower(seq[i])]

NormAll(seq) == [i \in 1..Len(seq) |-> strip_accents(Lower(seq[i]))]

AliasesNorm(name_l) ==
    [k \in 1..Len(alias_map(name_l)) |-> strip_accents(alias_map(name_l)[k])]

\* strategy 3: the first sentence that mentions the name, then the first that
\* mentions it once accents are stripped
StrategySentence(sentences, name) ==
    LET name_l == Lower(name)
        direct == FirstMention(LowerAll(sentences), StripAll(sentences),
                               name_l, alias_map(name_l))
    IN  IF direct # <<>> THEN direct
        ELSE FirstMention(NormAll(sentences), StripAll(sentences),
                          strip_accents(name_l), AliasesNorm(name_l))

\* p.split('\n')[0].strip()
FirstLine(p) == Strip(SubSeq(p, 1, LineEnd(p, 1) - 1))

FirstLines(seq) == [i \in 1..Len(seq) |-> FirstLine(seq[i])]

\* strategy 4: the first line of the first paragraph that mentions the name
StrategyParagraph(paragraphs, name) ==
    LET name_l == Lower(name)
        direct == FirstMention(LowerAll(paragraphs), FirstLines(paragraphs),
                               name_l, alias_map(name_l))
    IN  IF direct # <<>> THEN direct
        ELSE FirstMention(NormAll(paragraphs), FirstLines(paragraphs),
                          strip_accents(name_l), AliasesNorm(name_l))

\* re.findall(r"\w+", s) from position from on
RECURSIVE WordTokens(_, _)
WordTokens(s, from) ==
    LET a == RunEnd(s, from, [i \in 1..Len(s) |-> ~IsWordChar(s[i])])
        b == RunEnd(s, a, [i \in 1..Len(s) |-> IsWordChar(s[i])])
    IN  IF a > Len(s) THEN <<>>
        ELSE <<SubSeq(s, a, b - 1)>> \o WordTokens(s, b)

\* name_tokens
NameTokens(name) ==
    SelectSeq(WordTokens(strip_accents(Lower(name)), 1), LAMBDA t : Len(t) > 2)

\* match_count for sentence idx
MatchCount(sentences, idx, tokens) ==
    Cardinality({k \in 1..Len(tokens) :
                    Contains(strip_accents(Lower(sentences[idx])), tokens[k])})

\* variant: the best sentence is taken whatever its score
StrategyTokenAnyScore(sentences, name) ==
    LET tokens == NameTokens(name)
        idxs == {i \in 1..Len(sentences) : sentences[i] # <<>>}
        hits == {i \in idxs : MatchCount(sentences, i, tokens) > 0}
        best == {i \in hits : \A j \in hits :
                    MatchCount(sentences, j, tokens) <= MatchCount(sentences, i, tokens)}
    IN  IF hits = {} THEN <<>> ELSE Strip(sentences[Min(best)])

\* strategy 5: the first sentence of the highest score, match_count over
\* max(1, len(name_tokens)), when that score is at least 0.4
StrategyToken(sentences, name) ==
    LET tokens == NameTokens(name)
        idxs == {i \in 1..Len(sentences) : sentences[i] # <<>>}
        count(i) == MatchCount(sentences, i, tokens)
        hits == {i \in idxs : count(i) > 0}
        best == {i \in hits : \A j \in hits : count(j) <= count(i)}
        denom == IF Len(tokens) > 1 THEN Len(tokens) ELSE 1
    IN  IF hits = {} THEN <<>>
        ELSE IF 10 * count(Min(best)) >= 4 * denom THEN Strip(sentences[Min(best)])
        ELSE <<>>

(***************************************************************************)
(* get_location_summaries: cleaning and shortening of a candidate          *)
(***************************************************************************)
\* \|\s*-?\d+\.?\d*\s*\|\s*-?\d+\.?\d* at p
CoordFragEnd(t, p) ==
    LET a == SkipSpaces(t, p + 1)
        b == NumEndLoose(t, a)
        c == SkipSpaces(t, b)
        d == SkipSpaces(t, c + 1)
    IN  IF At(t, p) # "|" \/ b = 0 \/ At(t, c) # "|" THEN 0
        ELSE NumEndLoose(t, d)

\* re.sub(r"\|\s*-?\d+\.?\d*\s*\|\s*-?\d+\.?\d*", "", t)
StripCoordFrags(t) == RemoveSpans(t, [p \in 1..Len(t) |-> CoordFragEnd(t, p)], 1)

\* re.sub(r"\*\*(.*?)\*\*", r"\1", t) from pos on
RECURSIVE StripBold(_, _)
StripBold(t, pos) ==
    LET closes == {q \in (pos + 2)..(Len(t) - 1) :
                      /\ t[q] = "*" /\ t[q + 1] = "*"
                      /\ \A j \in (pos + 2)..(q - 1) : t[j] # NL}
    IN  IF pos > Len(t) THEN <<>>
        ELSE IF At(t, pos) = "*" /\ At(t, pos + 1) = "*" /\ closes # {}
             THEN SubSeq(t, pos + 2, Min(closes) - 1) \o StripBold(t, Min(closes) + 2)
        ELSE <<t[pos]>> \o StripBold(t, pos + 1)

\* re.sub(r"\*(.*?)\*", r"\1", t) from pos on
RECURSIVE StripItalic(_, _)
StripItalic(t, pos) ==
    LET closes == {q \in (pos + 1)..Len(t) :
                      t[q] = "*" /\ \A j \in (pos + 1)..(q - 1) : t[j] # NL}
    IN  IF pos > Len(t) THEN <<>>
        ELSE IF t[pos] = "*" /\ closes # {}
             THEN SubSeq(t, pos + 1, Min(closes) - 1) \o StripItalic(t, Min(closes) + 1)
        ELSE <<t[pos]>> \o StripItalic(t, pos + 1)

\* re.sub(r"^\s*#{1,6}\s*", "", t)
StripHeading(t) ==
    LET h == SkipSpaces(t, 1)
        k == RunEnd(t, h, [i \in 1..Len(t) |-> IsHash(t[i])])
        k6 == IF k - h > 6 THEN h + 6 ELSE k
    IN  IF k = h THEN t ELSE SubSeq(t, SkipSpaces(t, k6), Len(t))

\* re.sub(r"^[\W_]+", "", t)
StripLeadingNonWord(t) ==
    SubSeq(t, RunEnd(t, 1, [i \in 1..Len(t) |-> ~IsWordChar(t[i]) \/ t[i] = "_"]), Len(t))

\* the two code points of the houses emoji
Houses == "houses"
VS16 == "variation-selector-16"

SectionLabels ==
    << <<"N", "e", "i", "g", "h", "b", "o", "r", "h", "o", "o", "d", "s">>,
       <<"G", "a", "s", "t", "r", "o", "n", "o", "m", "y">>,
       <<"C", "O", "O", "R", "D", "I", "N", "A", "T", "E", "S">>,
       <<"C", "O", "O", "R", "D", "I", "N", "A", "T", "E">>,
       <<"C", "o", "o", "r", "d", "i", "n", "a", "t", "e", "s">> >>

\* re.sub(r"^(?:<houses>\s*)?(?:Neighborhoods|Gastronomy|COORDINATES|COORDINATE
\* |Coordinates)[:\-\s]*", "", t, flags=re.I)
StripSectionLabel(t) ==
    LET starts == (IF At(t, 1) = Houses /\ At(t, 2) = VS16
                   THEN <<SkipSpaces(t, 3)>> ELSE <<>>) \o <<1>>
        hit(k) == {n \in 1..Len(SectionLabels) : MatchesCI(t, starts[k], SectionLabels[n])}
        good == {k \in 1..Len(starts) : hit(k) # {}}
        k0 == Min(good)
        e == starts[k0] + Len(SectionLabels[Min(hit(k0))])
    IN  IF good = {} THEN t
        ELSE SubSeq(t, RunEnd(t, e, [i \in 1..Len(t) |-> t[i] \in {":", "-"} \/ IsSpace(t[i])]), Len(t))

\* re.sub(rf"^\s*{re.escape(name)}\s*[:\-–—]\s*", "", t, flags=re.I)
StripNamePrefix(t, name) ==
    LET ok == {a \in 1..SkipSpaces(t, 1) :
                  /\ MatchesCI(t, a, name)
                  /\ IsLabelSep(At(t, SkipSpaces(t, a + Len(name))))}
    IN  IF ok = {} THEN t
        ELSE SubSeq(t, SkipSpaces(t, SkipSpaces(t, Max(ok) + Len(name)) + 1), Len(t))

\* re.sub(r"\s{2,}", " ", t) from pos on
RECURSIVE CollapseSpaces(_, _)
CollapseSpaces(t, pos) ==
    IF pos > Len(t) THEN <<>>
    ELSE IF SkipSpaces(t, pos) - pos >= 2
         THEN <<" ">> \o CollapseSpaces(t, SkipSpaces(t, pos))
    ELSE <<t[pos]>> \o CollapseSpaces(t, pos + 1)

\* s.split() from position from on
RECURSIVE Words(_, _)
Words(s, from) ==
    LET a == SkipSpaces(s, from)
        b == RunEnd(s, a, [i \in 1..Len(s) |-> ~IsSpace(s[i])])
    IN  IF a > Len(s) THEN <<>>
        ELSE <<SubSeq(s, a, b - 1)>> \o Words(s, b)

WordCount(s) == Len(Words(s, 1))

Ellipsis == <<".", ".", ".">>

\* variant: the cut without the ellipsis mark
shortifyNoMark(s0, max_words) ==
    LET s == Strip(s0)
    IN  IF WordCount(s) <= max_words THEN s
        ELSE Join(SubSeq(Words(s, 1), 1, max_words), <<" ">>)

\* variant: a long text is always cut to its first words
shortifyHardCut(s0, max_words) ==
    LET s == Strip(s0)
    IN  IF WordCount(s) <= max_words THEN s
        ELSE Join(SubSeq(Words(s, 1), 1, max_words), <<" ">>) \o Ellipsis

shortify(s0, max_words) ==
    LET s == Strip(s0)
        first == Strip(SplitSentences(s, 1)[1])
        clauses == StripNonEmpty(SplitOn(s, <<",">>, 1))
        short == IF Len(clauses) >= 2 THEN clauses[1] \o <<",", " ">> \o clauses[2]
                 ELSE IF Len(clauses) = 1 THEN clauses[1]
                 ELSE s
    IN  IF s = <<>> THEN s
        ELSE IF WordCount(s) <= max_words THEN s
        ELSE IF WordCount(first) <= max_words THEN first \o Ellipsis
        ELSE IF WordCount(short) > max_words
             THEN Join(SubSeq(Words(short, 1), 1, max_words), <<" ">>) \o Ellipsis
        ELSE short \o Ellipsis

\* the cleaning of a candidate, up to the collapse of whitespace
CleanDesc(desc, name) ==
    LET d1 == StripCoordFrags(desc)
        d2 == StripBold(d1, 1)
        d3 == StripItalic(d2, 1)
        d4 == StripHeading(d3)
        d5 == StripLeadingNonWord(d4)
        d6 == StripSectionLabel(d5)
        d7 == StripNamePrefix(d6, name)
    IN  Strip(CollapseSpaces(d7, 1))

\* the words the description of a found candidate is cut to
MaxWords == 10

\* the candidates shorter than this are dropped
MinWords == 3

\* variant: a cleaned candidate is kept whatever it is
PostProcessKeepAll(desc, name) == shortify(CleanDesc(desc, name), MaxWords)

\* "if desc:" ... : the description a candidate becomes, <<>> when it is dropped
PostProcess(desc, name) ==
    LET d == CleanDesc(desc, name)
    IN  IF d = <<>> \/ Lower(d) = Lower(name) \/ WordCount(d) < MinWords THEN <<>>
        ELSE shortify(d, MaxWords)

\* variant: another fallback text
FallbackLiteralShort == <<"N", "o", " ", "d", "e", "s", "c", "r", "i", "p", "t", "i", "o", "n", ".">>

FallbackLiteral ==
    <<"N", "o", " ", "s", "h", "o", "r", "t", " ", "d", "e", "s", "c", "r",
      "i", "p", "t", "i", "o", "n", " ", "a", "v", "a", "i", "l", "a", "b",
      "l", "e", ".">>

(***************************************************************************)
(* get_location_summaries: inputs and steps                                *)
(***************************************************************************)
\* the lines the guide texts are made of
GuideLinePool ==
    << <<"R", "o", ":", " ", "a", " ", "f", "i", "n", "e", " ", "o", "l", "d",
         " ", "t", "o", "w", "n", ".">>,
       <<"*", " ", "*", "*", "R", "o", "*", "*", " ", "h", "a", "s", " ", "b",
         "i", "g", " ", "a", "r", "t", ".">>,
       <<"S", "e", "e", " ", "S", ".", " ", "R", "o", " ", "n", "o", "w", ".">>,
       <<"N", "o", "v", "a", " ", "i", "s", " ", "f", "a", "r", " ", "o", "f",
         "f", ".">>,
       <<"R", "o", " ", "|", " ", "4", "1", ".", "9", " ", "|", " ", "1", "2",
         ".", "5">> >>

\* the place names asked for
NamePool ==
    << <<"R", "o">>,
       <<"S", ".", " ", "R", "o">>,
       <<"R", "o", "m", "a", " ", "N", "o", "v", "a">> >>

GuideText(src) == Join([i \in 1..Len(src) |-> GuideLinePool[src[i]]], <<NL>>)

GuideTexts == {GuideText(src) : src \in SeqsUpTo(1..Len(GuideLinePool), MaxGuideLines)}

NameLists ==
    {[i \in 1..Len(ns) |-> NamePool[ns[i]]] : ns \in SeqsUpTo(1..Len(NamePool), MaxNames)}

ExIdle ==
    /\ ex_src = <<>> /\ ex_text = <<>> /\ ex_matches = <<>>
    /\ ex_idx = 0 /\ ex_data = <<>> /\ ex_pc = "idle"

RsInit ==
    /\ ExIdle
    /\ GsIdle
    /\ RlIdle
    /\ UiIdle
    /\ rs_text \in GuideTexts
    /\ rs_names \in NameLists
    /\ rs_clean = <<>>
    /\ rs_sentences = <<>>
    /\ rs_lines = <<>>
    /\ rs_paragraphs = <<>>
    /\ rs_i = 0
    /\ rs_desc = <<>>
    /\ rs_tried = <<>>
    /\ rs_summaries = <<>>
    /\ rs_llm_calls = <<>>
    /\ rs_pc = "start"

\* variant: an empty text yields the fallback record of every name
RsEarlyReturnFills ==
    /\ rs_pc = "start"
    /\ rs_text = <<>> \/ rs_names = <<>>
    /\ rs_summaries' = [i \in 1..Len(rs_names) |->
                           [name |-> rs_names[i], desc |-> <<"n", "o", "n", "e">>]]
    /\ rs_pc' = "done"
    /\ UNCHANGED <<rs_text, rs_names, rs_clean, rs_sentences, rs_lines, rs_paragraphs,
                   rs_i, rs_desc, rs_tried, rs_llm_calls>>
    /\ UNCHANGED <<exVars, gsVars, rlVars, uiVars>>

\* if not text or not names: return summaries
RsEarlyReturn ==
    /\ rs_pc = "start"
    /\ rs_text = <<>> \/ rs_names = <<>>
    /\ rs_pc' = "done"
    /\ UNCHANGED <<rs_text, rs_names, rs_clean, rs_sentences, rs_lines, rs_paragraphs,
                   rs_i, rs_desc, rs_tried, rs_summaries, rs_llm_calls>>
    /\ UNCHANGED <<exVars, gsVars, rlVars, uiVars>>

\* clean_text, sentences, lines, paragraphs; the loop over names begins
RsPrepare ==
    /\ rs_pc = "start"
    /\ rs_text # <<>> /\ rs_names # <<>>
    /\ rs_clean' = CleanText(rs_text)
    /\ rs_sentences' = SplitSentences(rs_clean', 1)
    /\ rs_lines' = StripNonEmpty(SplitOn(rs_clean', <<NL>>, 1))
    /\ rs_paragraphs' = StripNonEmpty(SplitOn(rs_clean', <<NL, NL>>, 1))
    /\ rs_i' = 1
    /\ rs_pc' = "label"
    /\ UNCHANGED <<rs_text, rs_names, rs_desc, rs_tried, rs_summaries, rs_llm_calls>>
    /\ UNCHANGED <<exVars, gsVars, rlVars, uiVars>>

\* variant: every strategy is consulted whatever the earlier ones found
NextStageAlways(desc, next) == next

\* "if not desc:" before the next strategy: where control goes with desc
NextStage(desc, next) == IF desc # <<>> THEN "clean" ELSE next

\* one strategy: its candidate becomes desc when it finds one
RsConsult(stage, cand, next) ==
    /\ rs_pc = stage
    /\ rs_desc' = IF cand # <<>> THEN cand ELSE rs_desc
    /\ rs_tried' = Append(rs_tried, stage)
    /\ rs_pc' = NextStage(rs_desc', next)
    /\ UNCHANGED <<rs_text, rs_names, rs_clean, rs_sentences, rs_lines, rs_paragraphs,
                   rs_i, rs_summaries, rs_llm_calls>>
    /\ UNCHANGED <<exVars, gsVars, rlVars, uiVars>>

RsLabel == RsConsult("label", StrategyLabel(rs_lines, rs_names[rs_i]), "bullet")

RsBullet == RsConsult("bullet", StrategyBullet(rs_lines, rs_names[rs_i]), "sentence")

RsSentence ==
    RsConsult("sentence", StrategySentence(rs_sentences, rs_names[rs_i]), "paragraph")

RsParagraph ==
    RsConsult("paragraph", StrategyParagraph(rs_paragraphs, rs_names[rs_i]), "token")

RsToken == RsConsult("token", StrategyToken(rs_sentences, rs_names[rs_i]), "fallback")

\* variant: after a rejected candidate the strategies that follow are consulted
RsCleanRetry ==
    /\ rs_pc = "clean"
    /\ rs_desc' = PostProcess(rs_desc, rs_names[rs_i])
    /\ rs_pc' = IF rs_desc' # <<>> THEN "append"
                ELSE IF Len(rs_tried) = 1 THEN "bullet"
                ELSE IF Len(rs_tried) = 2 THEN "sentence"
                ELSE IF Len(rs_tried) = 3 THEN "paragraph"
                ELSE IF Len(rs_tried) = 4 THEN "token"
                ELSE "fallback"
    /\ UNCHANGED <<rs_text, rs_names, rs_clean, rs_sentences, rs_lines, rs_paragraphs,
                   rs_i, rs_tried, rs_summaries, rs_llm_calls>>
    /\ UNCHANGED <<exVars, gsVars, rlVars, uiVars>>

\* if desc: ... desc = "" or desc = shortify(desc, max_words=10)
RsClean ==
    /\ rs_pc = "clean"
    /\ rs_desc' = PostProcess(rs_desc, rs_names[rs_i])
    /\ rs_pc' = IF rs_desc' = <<>> THEN "fallback" ELSE "append"
    /\ UNCHANGED <<rs_text, rs_names, rs_clean, rs_sentences, rs_lines, rs_paragraphs,
                   rs_i, rs_tried, rs_summaries, rs_llm_calls>>
    /\ UNCHANGED <<exVars, gsVars, rlVars, uiVars>>

\* variant: no description is supplied when none was found
RsFallbackNone ==
    /\ rs_pc = "fallback"
    /\ rs_desc' = <<>>
    /\ rs_pc' = "append"
    /\ UNCHANGED <<rs_text, rs_names, rs_clean, rs_sentences, rs_lines, rs_paragraphs,
                   rs_i, rs_tried, rs_summaries, rs_llm_calls>>
    /\ UNCHANGED <<exVars, gsVars, rlVars, uiVars>>

\* if not desc: desc = "No short description available."
RsFallback ==
    /\ rs_pc = "fallback"
    /\ rs_desc' = FallbackLiteral
    /\ rs_pc' = "append"
    /\ UNCHANGED <<rs_text, rs_names, rs_clean, rs_sentences, rs_lines, rs_paragraphs,
                   rs_i, rs_tried, rs_summaries, rs_llm_calls>>
    /\ UNCHANGED <<exVars, gsVars, rlVars, uiVars>>

\* variant: a name already summarised is not recorded again
RsAppendDedup ==
    /\ rs_pc = "append"
    /\ rs_summaries' =
          IF \E k \in 1..Len(rs_summaries) : rs_summaries[k].name = rs_names[rs_i]
          THEN rs_summaries
          ELSE Append(rs_summaries, [name |-> rs_names[rs_i], desc |-> rs_desc])
    /\ IF rs_i < Len(rs_names)
       THEN rs_i' = rs_i + 1 /\ rs_desc' = <<>> /\ rs_tried' = <<>> /\ rs_pc' = "label"
       ELSE rs_pc' = "done" /\ UNCHANGED <<rs_i, rs_desc, rs_tried>>
    /\ UNCHANGED <<rs_text, rs_names, rs_clean, rs_sentences, rs_lines, rs_paragraphs,
                   rs_llm_calls>>
    /\ UNCHANGED <<exVars, gsVars, rlVars, uiVars>>

\* summaries.append({"name": name, "desc": desc}); the next name
RsAppend ==
    /\ rs_pc = "append"
    /\ rs_summaries' = Append(rs_summaries, [name |-> rs_names[rs_i], desc |-> rs_desc])
    /\ IF rs_i < Len(rs_names)
       THEN rs_i' = rs_i + 1 /\ rs_desc' = <<>> /\ rs_tried' = <<>> /\ rs_pc' = "label"
       ELSE rs_pc' = "done" /\ UNCHANGED <<rs_i, rs_desc, rs_tried>>
    /\ UNCHANGED <<rs_text, rs_names, rs_clean, rs_sentences, rs_lines, rs_paragraphs,
                   rs_llm_calls>>
    /\ UNCHANGED <<exVars, gsVars, rlVars, uiVars>>

RsNext ==
    \/ RsEarlyReturn
    \/ RsPrepare
    \/ RsLabel
    \/ RsBullet
    \/ RsSentence
    \/ RsParagraph
    \/ RsToken
    \/ RsClean
    \/ RsFallback
    \/ RsAppend

SpecResolve == RsInit /\ [][RsNext]_vars

(***************************************************************************)
(* get_location_summaries on guide texts with long candidates, coordinate  *)
(* fragments, accents, bold labels, repeated labels, rejected candidates   *)
(* and names found by token overlap only                                   *)
(***************************************************************************)
CaseTexts ==
    { <<"R", "o", ":", " ", "a", " ", "b", " ", "c", " ", "d", " ", "e", " ",
        "f", " ", "g", " ", "h", " ", "i", " ", "j", " ", "k", ".">>,
      <<"R", "o", ":", " ", "a", " ", "b", " ", "c", ".", " ", "d", " ", "e",
        " ", "f", " ", "g", " ", "h", " ", "i", " ", "j", " ", "k", " ",
        "l", ".">>,
      <<"R", "o", ":", " ", "a", " ", "b", " ", "c", " ", "d", " ", "e", " ",
        "f", ",", " ", "g", " ", "h", " ", "i", ",", " ", "j", " ", "k",
        " ", "l", " ", "m", ".">>,
      <<"R", "o", ":", " ", "a", " ", "b", " ", "c", " ", "d", " ", "e", " ",
        "f", " ", "g", " ", "h", " ", "i", " ", "j", ".">>,
      <<"R", "o", ":", " ", "s", "e", "e", " ", "|", " ", "1", " ", "*", "*",
        "|", "*", "*", " ", "2", " ", "o", "k">>,
      <<"R", "o", ":", " ", "t", "o", "p", " ", "|", " ", "4", "1", ".", "9",
        " ", "|", " ", "1", "2", ".", "5", " ", "s", "p", "o", "t", " ",
        "h", "e", "r", "e">>,
      <<"#", "#", "#", " ", "C", "O", "O", "R", "D", "I", "N", "A", "T", "E",
        "S", NL, "R", "o", " ", "|", " ", "4", "1", ".", "9", " ", "|",
        " ", "1", "2", ".", "5", NL, "R", "o", ":", " ", "a", " ", "f",
        "i", "n", "e", " ", "o", "l", "d", " ", "t", "o", "w", "n", ".">>,
      <<"C", "a", "f", EAcute, ":", " ", "g", "o", "o", "d", " ", "h", "o", "t",
        " ", "t", "e", "a", ".">>,
      <<"*", " ", "*", "*", "R", "o", ":", "*", "*", " ", "o", "l", "d", " ",
        "b", "i", "g", " ", "h", "u", "b", ".">>,
      <<"R", "o", " ", "|", " ", "4", "1", ".", "9", " ", "|", " ", "1", "2",
        ".", "5">>,
      <<"R", "o", ":", " ", "a", " ", "b", " ", "c", " ", "d", " ", "e", " ",
        "f", " ", "g", ",", " ", "h", " ", "i", " ", "j", " ", "k", " ",
        "l", ",", " ", "m", ".">>,
      <<"R", "o", ":", " ", "W", "o", "w", ".", " ", "a", " ", "b", " ", "c",
        " ", "d", " ", "e", " ", "f", " ", "g", " ", "h", " ", "i", " ",
        "j", " ", "k", " ", "l">>,
      <<"R", "o", ":", " ", "R", "o", ":", " ", "R", "o", ":", " ", "b", "i",
        "g", " ", "o", "l", "d", " ", "h", "u", "b">>,
      <<"C", "a", "f", EAcute, " ", "i", "s", " ", "n", "i", "c", "e", " ", "a",
        "n", "d", " ", "w", "a", "r", "m", ".", " ", "C", "a", "f", "e",
        " ", "h", "a", "s", " ", "g", "o", "o", "d", " ", "t", "e", "a",
        " ", "t", "o", "o", ".">>,
      <<"R", "o", ":", " ", "b", "i", "g", " ", "h", "u", "b", ".", NL, "*", " ",
        "*", "*", "R", "o", "*", "*", " ", "h", "a", "s", " ", "b", "i",
        "g", " ", "a", "r", "t", ".">>,
      <<"R", "o", ":", " ", "*", "*">>,
      <<"G", "o", ".", " ", "R", "o", "m", "a", " ", "N", "o", "v", "a", " ",
        "A", "l", "t", "a">>,
      <<"N", "o", "v", "a", " ", "i", "s", " ", "f", "a", "r", ".", " ", "N",
        "o", "v", "a", " ", "a", "l", "t", "a", " ", "i", "s", " ", "n",
        "e", "a", "r", ".">>,
      <<"N", "o", "v", "a", " ", "i", "s", " ", "f", "a", "r", " ", "o", "f",
        "f", ".">> }

CaseNamePool ==
    << <<"R", "o">>,
       <<"C", "a", "f", "e">>,
       <<"R", "o", "m", "a", " ", "N", "o", "v", "a", " ", "A", "l", "t", "a">> >>

CaseNameLists ==
    {[i \in 1..Len(ns) |-> CaseNamePool[ns[i]]] :
        ns \in SeqsUpTo(1..Len(CaseNamePool), MaxNames)}

RsInitCases ==
    /\ ExIdle
    /\ GsIdle
    /\ RlIdle
    /\ UiIdle
    /\ rs_text \in CaseTexts
    /\ rs_names \in CaseNameLists
    /\ rs_clean = <<>>
    /\ rs_sentences = <<>>
    /\ rs_lines = <<>>
    /\ rs_paragraphs = <<>>
    /\ rs_i = 0
    /\ rs_desc = <<>>
    /\ rs_tried = <<>>
    /\ rs_summaries = <<>>
    /\ rs_llm_calls = <<>>
    /\ rs_pc = "start"

SpecResolveCases == RsInitCases /\ [][RsNext]_vars

(***************************************************************************)
(* generate_place_summary (ai.py)                                          *)
(***************************************************************************)
NotInBriefing == <<"n", "o", "t", " ", "i", "n", " ", "t", "h", "i", "s", " ", "s", "p",
      "e", "c", "i", "f", "i", "c", " ", "b", "r", "i", "e", "f", "i", "n",
      "g">>

NoShortPhrase == <<"n", "o", " ", "s", "h", "o", "r", "t", " ", "d", "e", "s", "c", "r",
      "i", "p", "t", "i", "o", "n">>

\* the words a generated summary is cut to
MaxSummaryWords == 15

\* clean.splitlines()[0]
GsFirstLine(clean) == SubSeq(clean, 1, LineEnd(clean, 1) - 1)

\* variant: the first line is returned whatever its length
SanitizeNoCut(clean) ==
    IF  \/ clean = <<>>
        \/ Contains(Lower(clean), NotInBriefing)
        \/ Contains(Lower(clean), NoShortPhrase)
    THEN FallbackLiteral
    ELSE GsFirstLine(clean)

\* from "if not clean or ..." to "return first_line"
Sanitize(clean) ==
    LET first_line == GsFirstLine(clean)
        words == Words(first_line, 1)
    IN  IF  \/ clean = <<>>
            \/ Contains(Lower(clean), NotInBriefing)
            \/ Contains(Lower(clean), NoShortPhrase)
        THEN FallbackLiteral
        ELSE IF Len(words) > MaxSummaryWords
             THEN Join(SubSeq(words, 1, MaxSummaryWords), <<" ">>) \o Ellipsis
        ELSE first_line

\* the lines the responses of run_gen_response are made of
ResponseLinePool ==
    << <<"A", " ", "f", "i", "n", "e", " ", "o", "l", "d", " ", "t", "o", "w",
         "n", ".">>,
       <<"a", " ", "b", " ", "c", " ", "d", " ", "e", " ", "f", " ", "g", " ",
         "h", " ", "i", " ", "j", " ", "k", " ", "l", " ", "m", " ", "n",
         " ", "o", " ", "p">>,
       <<"a", " ", "b", " ", "c", " ", "d", " ", "e", " ", "f", " ", "g", " ",
         "h", " ", "i", " ", "j", " ", "k", " ", "l", " ", "m", " ", "n",
         " ", "o">>,
       <<"N", "o", "t", " ", "i", "n", " ", "t", "h", "i", "s", " ", "s", "p",
         "e", "c", "i", "f", "i", "c", " ", "b", "r", "i", "e", "f", "i",
         "n", "g", ".">>,
       <<"S", "o", "r", "r", "y", ",", " ", "N", "O", " ", "S", "H", "O", "R",
         "T", " ", "D", "E", "S", "C", "R", "I", "P", "T", "I", "O", "N",
         " ", "h", "e", "r", "e", ".">>,
       <<>>,
       <<" ", " ", "N", "i", "c", "e", " ", "s", "p", "o", "t", " ", " ">>,
       <<"N", "o", " ", "s", "h", "o", "r", "t", " ", "d", "e", "s", "c", "r",
         "i", "p", "t", "i", "o", "n", " ", "a", "v", "a", "i", "l", "a",
         "b", "l", "e", ".">> >>

ResponseText(src) == Join([i \in 1..Len(src) |-> ResponseLinePool[src[i]]], <<NL>>)

\* run_gen_response returns a text or raises
Responses ==
    {[kind |-> "text", text |-> ResponseText(src)] :
        src \in SeqsUpTo(1..Len(ResponseLinePool), MaxResponseLines)}
    \cup {[kind |-> "raise", text |-> <<>>]}

GsInit ==
    /\ ExIdle
    /\ RsIdle
    /\ RlIdle
    /\ UiIdle
    /\ gs_response \in Responses
    /\ gs_clean = <<>>
    /\ gs_result = <<>>
    /\ gs_pc = "start"

\* response = run_gen_response(...); clean = response.strip()
GsCall ==
    /\ gs_pc = "start"
    /\ IF gs_response.kind = "raise"
       THEN gs_pc' = "raised" /\ UNCHANGED gs_clean
       ELSE gs_clean' = Strip(gs_response.text) /\ gs_pc' = "called"
    /\ UNCHANGED <<gs_response, gs_result>>
    /\ UNCHANGED <<exVars, rsVars, rlVars, uiVars>>

\* the checks and returns inside try
GsReturn ==
    /\ gs_pc = "called"
    /\ gs_result' = Sanitize(gs_clean)
    /\ gs_pc' = "done"
    /\ UNCHANGED <<gs_response, gs_clean>>
    /\ UNCHANGED <<exVars, rsVars, rlVars, uiVars>>

\* variant: the exception leaves the function
GsExceptPropagates ==
    /\ gs_pc = "raised"
    /\ gs_pc' = "propagated"
    /\ UNCHANGED <<gs_response, gs_clean, gs_result>>
    /\ UNCHANGED <<exVars, rsVars, rlVars, uiVars>>

\* except Exception: return "No short description available."
GsExcept ==
    /\ gs_pc = "raised"
    /\ gs_result' = FallbackLiteral
    /\ gs_pc' = "done"
    /\ UNCHANGED <<gs_response, gs_clean>>
    /\ UNCHANGED <<exVars, rsVars, rlVars, uiVars>>

GsNext == GsCall \/ GsReturn \/ GsExcept

SpecSummary == GsInit /\ [][GsNext]_vars

(***************************************************************************)
(* check_rate_limit and the head of generate_travel_intel (api.py)         *)
(***************************************************************************)
RATE_LIMIT == 5

RATE_WINDOW == 3600

\* client_ip: the peer's host, or "unknown" when the request has no client
ClientIps == {"10.0.0.1", "unknown"}

\* the seconds time.time() has advanced since the request before
Elapsed == {0, 1, 3599}

\* [ts for ts in rate_limit_storage[ip] if now - ts < RATE_WINDOW]
CleanOld(stamps, now) == SelectSeq(stamps, LAMBDA ts : now - ts < RATE_WINDOW)

\* variant: the limit is not looked at
check_rate_limit_unchecked(storage, ip, now) ==
    [allowed |-> TRUE,
     storage |-> [storage EXCEPT ![ip] = Append(CleanOld(storage[ip], now), now)]]

\* variant: a refused request is stamped too
check_rate_limit_stamps_refused(storage, ip, now) ==
    LET kept == CleanOld(storage[ip], now)
    IN  [allowed |-> Len(kept) < RATE_LIMIT,
         storage |-> [storage EXCEPT ![ip] = Append(kept, now)]]

\* the value returned and rate_limit_storage afterwards
check_rate_limit(storage, ip, now) ==
    LET kept == CleanOld(storage[ip], now)
    IN  IF Len(kept) >= RATE_LIMIT
        THEN [allowed |-> FALSE, storage |-> [storage EXCEPT ![ip] = kept]]
        ELSE [allowed |-> TRUE, storage |-> [storage EXCEPT ![ip] = Append(kept, now)]]

ExSummaryIdle == ExIdle /\ RsIdle /\ GsIdle

RlInit ==
    /\ ExSummaryIdle
    /\ UiIdle
    /\ rl_now = 0
    /\ rl_storage = [ip \in ClientIps |-> <<>>]
    /\ rl_admitted = [ip \in ClientIps |-> <<>>]
    /\ rl_last = [kind |-> "none"]
    /\ rl_count = 0

\* variant: the rate limit is checked before the cache is looked at
RlCachedCounted ==
    /\ rl_last' = [kind |-> "cached", cached |-> TRUE, generated |-> FALSE]
    /\ \E ip \in ClientIps : rl_storage' = check_rate_limit(rl_storage, ip, rl_now).storage
    /\ UNCHANGED <<rl_now, rl_admitted, rl_count>>
    /\ UNCHANGED <<exVars, rsVars, gsVars, uiVars>>

\* a request answered from the cache, whoever the client is: the saved guide
\* is returned with cached true before check_rate_limit and generate_intel
\* are reached, and client_ip is not used on this path
RlCached ==
    /\ rl_last' = [kind |-> "cached", cached |-> TRUE, generated |-> FALSE]
    /\ UNCHANGED <<rl_now, rl_storage, rl_admitted, rl_count>>
    /\ UNCHANGED <<exVars, rsVars, gsVars, uiVars>>

\* a request not in the cache: check_rate_limit(client_ip), then 429 or on
RlGenerate(ip, d) ==
    /\ rl_count < MaxRequests
    /\ LET now == rl_now + d
           r == check_rate_limit(rl_storage, ip, now)
       IN  /\ rl_now' = now
           /\ rl_storage' = r.storage
           /\ rl_admitted' = IF r.allowed
                             THEN [rl_admitted EXCEPT ![ip] = Append(@, now)]
                             ELSE rl_admitted
           /\ rl_last' = [kind |-> "generate", ip |-> ip, time |-> now,
                          status |-> IF r.allowed THEN "passed" ELSE "429"]
    /\ rl_count' = rl_count + 1
    /\ UNCHANGED <<exVars, rsVars, gsVars, uiVars>>

RlNext ==
    \/ RlCached
    \/ \E ip \in ClientIps, d \in Elapsed : RlGenerate(ip, d)

SpecRate == RlInit /\ [][RlNext]_vars

(***************************************************************************)
(* The New Search page of run_app (ui.py) and of app.py: one action is one *)
(* run of the script, started by one event in the browser                  *)
(***************************************************************************)
\* the choices of the two select boxes
Destinations == {"Paris, France", "Rome, Italy"}

Months == {"March", "April"}

\* st.session_state.get(k)
SessionGet(s, k) == IF k \in DOMAIN s THEN s[k] ELSE "None"

\* del st.session_state[k] for the keys of ks that are present
SessionDel(s, ks) == [k \in DOMAIN s \ ks |-> s[k]]

\* the text generate_intel yields for a destination and a month
GuideFor(destination, month) == <<"guide", destination, month>>

\* variant: the selection is recorded and nothing is cleared
RecordSelection(s, destination, month) ==
    ("last_selected_dest" :> destination) @@ ("last_selected_month" :> month) @@ s

\* if the selection differs from the last one: delete the generated data and
\* record the selection
ClearIfChanged(s, destination, month) ==
    IF  \/ SessionGet(s, "last_selected_dest") # destination
        \/ SessionGet(s, "last_selected_month") # month
    THEN ("last_selected_dest" :> destination) @@ ("last_selected_month" :> month)
         @@ SessionDel(s, {"gen_summaries_new", "temp_generated_full", "temp_dest",
                           "temp_month"})
    ELSE s

\* if st.button("Generate Intelligence"): the three keys are set when the
\* try block reaches its end, nothing is set when it raises
GenerateClicked(s, destination, month, ok) ==
    IF ok
    THEN ("temp_generated_full" :> GuideFor(destination, month))
         @@ ("temp_dest" :> destination) @@ ("temp_month" :> month) @@ s
    ELSE s

NewSearch(destination, month) ==
    [selected |-> "New Search", destination |-> destination, month |-> month]

\* before the first run: no widget drawn, no key in the session, nothing saved
UiInit ==
    /\ ExSummaryIdle
    /\ RlIdle
    /\ ui_widgets = <<>>
    /\ ui_session = <<>>
    /\ ui_saved = {}

\* the first run, a change of a select box, or the return from My Library
\* (the boxes then show their defaults or any other choice): a run of the
\* New Search page with no button pressed
UiSelect(destination, month) ==
    /\ ui_widgets = <<>> \/ ui_widgets # NewSearch(destination, month)
    /\ ui_widgets' = NewSearch(destination, month)
    /\ ui_session' = ClearIfChanged(ui_session, destination, month)
    /\ UNCHANGED ui_saved
    /\ UNCHANGED <<exVars, rsVars, gsVars, rlVars>>

\* Generate pressed: a run of the New Search page with the selection shown
UiGenerate(ok) ==
    /\ ui_widgets # <<>>
    /\ ui_widgets.selected = "New Search"
    /\ ui_session' = GenerateClicked(
                        ClearIfChanged(ui_session, ui_widgets.destination, ui_widgets.month),
                        ui_widgets.destination, ui_widgets.month, ok)
    /\ UNCHANGED <<ui_widgets, ui_saved>>
    /\ UNCHANGED <<exVars, rsVars, gsVars, rlVars>>

\* Save to Library pressed (the button is drawn while temp_generated_full is
\* held): save_itinerary writes a row, finds no connection, or raises; the
\* key is deleted unless it raised, and st.rerun() runs the page once more
UiSave(outcome) ==
    /\ ui_widgets # <<>>
    /\ ui_widgets.selected = "New Search"
    /\ "temp_generated_full" \in DOMAIN ui_session
    /\ LET s == ClearIfChanged(ui_session, ui_widgets.destination, ui_widgets.month)
           row == [dest |-> s["temp_dest"], month |-> s["temp_month"],
                   text |-> s["temp_generated_full"]]
           left == SessionDel(s, {"temp_generated_full"})
       IN  /\ ui_saved' = IF outcome = "saved" THEN ui_saved \cup {row} ELSE ui_saved
           /\ ui_session' = IF outcome = "raised" THEN s
                            ELSE ClearIfChanged(left, ui_widgets.destination,
                                                ui_widgets.month)
    /\ UNCHANGED ui_widgets
    /\ UNCHANGED <<exVars, rsVars, gsVars, rlVars>>

\* My Library chosen in the sidebar: the New Search page is not run and its
\* select boxes are not drawn
UiLibrary ==
    /\ ui_widgets # <<>>
    /\ ui_widgets.selected = "New Search"
    /\ ui_widgets' = [selected |-> "My Library", destination |-> "None", month |-> "None"]
    /\ UNCHANGED <<ui_session, ui_saved>>
    /\ UNCHANGED <<exVars, rsVars, gsVars, rlVars>>

UiNext ==
    \/ \E destination \in Destinations, month \in Months : UiSelect(destination, month)
    \/ \E ok \in BOOLEAN : UiGenerate(ok)
    \/ \E outcome \in {"saved", "no connection", "raised"} : UiSave(outcome)
    \/ UiLibrary

SpecUi == UiInit /\ [][UiNext]_vars

(***************************************************************************)
(* Properties of extract_map_data (checked under SpecExtract)              *)
(***************************************************************************)
SrcLines == [i \in 1..Len(ex_src) |-> LinePool[ex_src[i]]]

Row(l) == [name |-> l.clean, lat |-> l.latv, lon |-> l.lonv]

\* |v| <= d for a decimal v = <<m, k>>
WithinDeg(v, d) == v[1] <= d * Pow10(v[2]) /\ 0 - v[1] <= d * Pow10(v[2])

LineInRange(l) == WithinDeg(l.latv, 90) /\ WithinDeg(l.lonv, 180)

DigitCount(s) == Cardinality({i \in 1..Len(s) : IsDigit(s[i])})

\* a decimal numeral as a reader writes it: -?digits(.digits)?
IsDecimalNumeral(s) ==
    LET body == IF At(s, 1) = "-" THEN Tail(s) ELSE s
        dots == {i \in 1..Len(body) : body[i] = "."}
    IN  /\ body # <<>>
        /\ \A i \in 1..Len(body) : IsDigit(body[i]) \/ body[i] = "."
        /\ Cardinality(dots) <= 1
        /\ \A i \in dots : i > 1 /\ i < Len(body)

\* a triple whose numerals have the two digits the pattern needs
IsMatchedLine(l) == l.kind = "triple" /\ DigitCount(l.lat) >= 2 /\ DigitCount(l.lon) >= 2

HasRow(r) == \E i \in 1..Len(ex_data) : ex_data[i] = r

(* C1: every record extract_map_data holds or returns has -90 <= lat <= 90 *)
(* and -180 <= lon <= 180; a matched triple out of these bounds yields no   *)
(* record and every in-range matched triple of the same text yields its own.*)
C1_RecordsInRange ==
    /\ \A i \in 1..Len(ex_data) :
          WithinDeg(ex_data[i].lat, 90) /\ WithinDeg(ex_data[i].lon, 180)
    /\ ex_pc = "done" =>
          \A i \in 1..Len(SrcLines) :
             LET l == SrcLines[i]
             IN  IsMatchedLine(l) =>
                    IF LineInRange(l) THEN HasRow(Row(l))
                    ELSE \A j \in 1..Len(ex_data) :
                            ex_data[j].lat # l.latv \/ ex_data[j].lon # l.lonv

C1_Witness ==
    /\ ex_pc = "done"
    /\ Len(ex_src) = 2
    /\ IsMatchedLine(SrcLines[1]) /\ ~LineInRange(SrcLines[1])
    /\ IsMatchedLine(SrcLines[2]) /\ LineInRange(SrcLines[2])
    /\ ex_data = <<Row(SrcLines[2])>>

ExpectedRows(src) ==
    LET kept == SelectSeq([i \in 1..Len(src) |-> LinePool[src[i]]],
                          LAMBDA l : IsMatchedLine(l) /\ LineInRange(l))
    IN  [i \in 1..Len(kept) |-> Row(kept[i])]

(* C2: extract_map_data returns one record per occurrence of an in-range    *)
(* triple the pattern matches, in text order, duplicates kept.              *)
C2_OnePerOccurrenceInOrder ==
    ex_pc = "done" => ex_data = ExpectedRows(ex_src)

C2_Witness ==
    /\ ex_pc = "done"
    /\ Len(ex_data) = 2
    /\ ex_data[1] = ex_data[2]

(* C3: every fragment name | lat | lon whose lat and lon are decimal        *)
(* numerals (optional minus, optional fraction, any number of digits) with  *)
(* in-range values yields a record carrying exactly those values.           *)
C3_EveryDecimalTripleMatched ==
    ex_pc = "done" =>
        \A i \in 1..Len(SrcLines) :
           LET l == SrcLines[i]
           IN  (/\ l.kind = "triple"
                /\ IsDecimalNumeral(l.lat) /\ IsDecimalNumeral(l.lon)
                /\ LineInRange(l))
               => \E j \in 1..Len(ex_data) :
                     ex_data[j].lat = l.latv /\ ex_data[j].lon = l.lonv

(* C4: every record returned by extract_map_data has a non-empty name.      *)
C4_NameNonEmpty ==
    \A i \in 1..Len(ex_data) : ex_data[i].name # <<>>

\* the text holds name | numeral | numeral somewhere, numerals as a reader
\* writes them
HasPattern(t) ==
    \E i, j \in 1..Len(t) :
        /\ i < j /\ t[i] = "|" /\ t[j] = "|"
        /\ i > 1 /\ IsNameChar(t[i - 1])
        /\ IsDecimalNumeral(Strip(SubSeq(t, i + 1, j - 1)))
        /\ \E k \in (j + 1)..Len(t) : IsDecimalNumeral(Strip(SubSeq(t, j + 1, k)))

(* C5: for the empty text and every text holding no name | lat | lon        *)
(* pattern (malformed triples included) extract_map_data finds no match,    *)
(* holds no record at any point and returns the empty sequence.             *)
C5_NoPatternNoRecords ==
    ~HasPattern(ex_text) =>
        /\ ex_matches = <<>>
        /\ ex_data = <<>>
        /\ ex_pc \in {"start", "loop", "done"}

C5_Witness ==
    /\ ex_pc = "done"
    /\ ~HasPattern(ex_text)
    /\ \E i \in 1..Len(ex_text) : ex_text[i] = "|"
    /\ ex_data = <<>>

(* C6: the name of every record is the captured name with every *, -, [, ]  *)
(* removed, wherever it stands, and without surrounding whitespace.         *)
C6_NameStripped ==
    \A i \in 1..Len(ex_data) :
        LET n == ex_data[i].name
        IN  /\ \A k \in 1..Len(n) : n[k] \notin {"*", "-", "[", "]"}
            /\ n # <<>> => ~IsSpace(n[1]) /\ ~IsSpace(n[Len(n)])
            /\ \E j \in 1..Len(SrcLines) :
                  SrcLines[j].kind = "triple" /\ n = SrcLines[j].clean

C6_Witness ==
    /\ ex_pc = "done"
    /\ \E i \in 1..Len(ex_data) : ex_data[i].name = <<"E", "F">>
    /\ \E j \in 1..Len(SrcLines) : SrcLines[j].raw = <<"-", " ", "E", "-", "F">>

(***************************************************************************)
(* Properties of get_location_summaries (checked under SpecResolve)        *)
(***************************************************************************)
RecordPerName ==
    /\ Len(rs_summaries) = Len(rs_names)
    /\ \A i \in 1..Len(rs_names) : rs_summaries[i].name = rs_names[i]

\* C7 as stated: for every guide text and every sequence of names, the
\* returned list has exactly one record per input name, in the input's
\* order, each carrying the corresponding input name.
C7_RecordPerNameAnyText == (rs_pc = "done") => RecordPerName

\* C7 amended: for every non-empty guide text and every sequence of names,
\* the returned list has exactly one record per input name, in the input's
\* order, each carrying the corresponding input name.
C7_RecordPerNameNonEmptyText == (rs_pc = "done" /\ rs_text # <<>>) => RecordPerName

C7_Witness ==
    /\ rs_pc = "done"
    /\ rs_text # <<>>
    /\ Len(rs_names) = 2
    /\ rs_names[1] # rs_names[2]
    /\ Len(rs_summaries) = 2
    /\ rs_summaries[1].desc # rs_summaries[2].desc

StrategyOrder == <<"label", "bullet", "sentence", "paragraph", "token">>

\* what strategy k finds for the name being resolved
Candidate(k) ==
    CASE k = 1 -> StrategyLabel(rs_lines, rs_names[rs_i])
      [] k = 2 -> StrategyBullet(rs_lines, rs_names[rs_i])
      [] k = 3 -> StrategySentence(rs_sentences, rs_names[rs_i])
      [] k = 4 -> StrategyParagraph(rs_paragraphs, rs_names[rs_i])
      [] k = 5 -> StrategyToken(rs_sentences, rs_names[rs_i])

\* C8: for each name the strategies are consulted in the order labeled-line,
\* bulleted-label, sentence, paragraph, token-overlap; a strategy is consulted
\* only if every earlier one produced no candidate, and the candidate handed
\* to post-processing is the one of the first strategy that produced one.
C8_FirstMatchingStrategy ==
    (rs_i >= 1) =>
        /\ Len(rs_tried) <= Len(StrategyOrder)
        /\ \A k \in 1..Len(rs_tried) : rs_tried[k] = StrategyOrder[k]
        /\ \A k \in 1..(Len(rs_tried) - 1) : Candidate(k) = <<>>
        /\ (\E k \in 1..Len(StrategyOrder) : rs_pc = StrategyOrder[k]) =>
              /\ rs_pc = StrategyOrder[Len(rs_tried) + 1]
              /\ \A k \in 1..Len(rs_tried) : Candidate(k) = <<>>
        /\ (rs_pc = "clean") =>
              /\ rs_tried # <<>>
              /\ Candidate(Len(rs_tried)) # <<>>
              /\ rs_desc = Candidate(Len(rs_tried))

\* the labeled line wins although the sentence strategy would find another text
C8_Witness ==
    /\ rs_pc = "clean"
    /\ rs_tried = <<"label">>
    /\ Candidate(3) # <<>>
    /\ Candidate(3) # rs_desc

\* C9: when no strategy yields an accepted candidate for a name, the
\* one-line summary generation is invoked for that name with the full guide
\* text as context.
C9_FallbackInvokesGenerator ==
    [][(rs_pc = "fallback") =>
          (rs_llm_calls' = Append(rs_llm_calls, <<rs_text, rs_names[rs_i]>>))]_vars

NoCandidate(name) ==
    /\ StrategyLabel(rs_lines, name) = <<>>
    /\ StrategyBullet(rs_lines, name) = <<>>
    /\ StrategySentence(rs_sentences, name) = <<>>
    /\ StrategyParagraph(rs_paragraphs, name) = <<>>
    /\ StrategyToken(rs_sentences, name) = <<>>

NoShortDescription == <<"N", "o", " ", "s", "h", "o", "r", "t", " ", "d", "e", "s", "c", "r",
      "i", "p", "t", "i", "o", "n", " ", "a", "v", "a", "i", "l", "a", "b",
      "l", "e", ".">>

\* C10: for a non-empty guide text and a name for which no strategy finds a
\* candidate, the returned description is exactly
\* "No short description available.".
C10_UnmentionedGetsLiteral ==
    (rs_pc = "done" /\ rs_text # <<>>) =>
        \A i \in 1..Len(rs_names) :
            NoCandidate(rs_names[i]) =>
                /\ i <= Len(rs_summaries)
                /\ rs_summaries[i].desc = NoShortDescription

\* one name is described from the text, the other is not mentioned in it
C10_Witness ==
    /\ rs_pc = "done"
    /\ rs_text # <<>>
    /\ Len(rs_names) = 2
    /\ Len(rs_summaries) = 2
    /\ NoCandidate(rs_names[2])
    /\ ~ NoCandidate(rs_names[1])
    /\ rs_summaries[2].desc = NoShortDescription
    /\ rs_summaries[1].desc # NoShortDescription

(***************************************************************************)
(* Properties of get_location_summaries (checked under SpecResolveCases    *)
(* and SpecResolve)                                                        *)
(***************************************************************************)
EndsWith(s, suffix) ==
    /\ Len(s) >= Len(suffix)
    /\ SubSeq(s, Len(s) - Len(suffix) + 1, Len(s)) = suffix

\* C11: when the cleaned candidate that is kept has more than 10 words, the
\* description ends with "..." and has at most 11 whitespace-delimited
\* tokens; when it has at most 10 words, the description is the cleaned
\* candidate unchanged.
C11_LongCandidateShortened ==
    [][(rs_pc = "clean" /\ rs_pc' = "append") =>
          LET c == CleanDesc(rs_desc, rs_names[rs_i])
          IN  /\ WordCount(c) > 10 =>
                    /\ EndsWith(rs_desc', <<".", ".", ".">>)
                    /\ WordCount(rs_desc') <= 11
              /\ WordCount(c) <= 10 => rs_desc' = c]_vars

\* a candidate of eleven words came back as ten words and the mark
C11_Witness ==
    /\ rs_pc = "done"
    /\ \E i \in 1..Len(rs_summaries) :
          /\ EndsWith(rs_summaries[i].desc, <<"j", ".", ".", ".">>)
          /\ WordCount(rs_summaries[i].desc) = 10
          /\ rs_text = <<"R", "o", ":", " ">> \o <<"a", " ", "b", " ", "c", " ", "d", " ",
                         "e", " ", "f", " ", "g", " ", "h", " ", "i", " ", "j", " ", "k", ".">>

ControlPositions ==
    {"start", "label", "bullet", "sentence", "paragraph", "token", "clean", "fallback",
     "append", "done"}

HasCoordFragment(d) ==
    \E p \in 1..Len(d) :
        /\ d[p] = "|"
        /\ \E q \in (p + 1)..Len(d) :
              /\ d[q] = "|"
              /\ IsDecimalNumeral(Strip(SubSeq(d, p + 1, q - 1)))
              /\ \E r \in (q + 1)..Len(d) : IsDecimalNumeral(Strip(SubSeq(d, q + 1, r)))

\* C13: no description returned by get_location_summaries holds a
\* coordinate fragment | <number> | <number>.
C13_NoCoordFragmentInDesc ==
    \A i \in 1..Len(rs_summaries) : ~HasCoordFragment(rs_summaries[i].desc)

\* the accent-stripped lower-cased form, character by character
Folded(s) == [i \in 1..Len(s) |-> StripAccentChar(LowerChar(s[i]))]

MentionedIn(sentences, name) ==
    \E k \in 1..Len(sentences) : Contains(Folded(sentences[k]), Folded(name))

\* the resolver went past the sentence strategy without a candidate
PastSentenceStrategy ==
    \/ rs_pc \in {"paragraph", "token"}
    \/ Len(rs_tried) > 3

\* C14 as stated: when the accent-stripped lower-cased name occurs in the
\* accent-stripped lower-cased form of a sentence of the guide text, a
\* candidate is found by the sentence strategy at the latest.
C14_AccentInsensitiveGuideText ==
    (rs_i >= 1 /\ MentionedIn(SplitSentences(rs_text, 1), rs_names[rs_i])) =>
        ~PastSentenceStrategy

\* C14 amended: when the accent-stripped lower-cased name occurs in the
\* accent-stripped lower-cased form of a sentence of the working text (the
\* guide text without its COORDINATES sections and name | lat | lon lines),
\* a candidate is found by the sentence strategy at the latest, and the
\* sentence strategy's candidate is a sentence that mentions the name.
C14_AccentInsensitiveWorkingText ==
    (rs_i >= 1 /\ MentionedIn(rs_sentences, rs_names[rs_i])) =>
        /\ ~PastSentenceStrategy
        /\ (rs_pc = "clean" /\ Len(rs_tried) = 3) =>
              \E k \in 1..Len(rs_sentences) :
                  /\ rs_desc = Strip(rs_sentences[k])
                  /\ Contains(Folded(rs_sentences[k]), Folded(rs_names[rs_i]))

\* "Cafe" is found in a sentence that writes it with its accent
C14_Witness ==
    /\ rs_pc = "clean"
    /\ rs_tried = <<"label", "bullet", "sentence">>
    /\ rs_names[rs_i] = <<"C", "a", "f", "e">>
    /\ ~Contains(Lower(rs_desc), Lower(rs_names[rs_i]))
    /\ Contains(Folded(rs_desc), Folded(rs_names[rs_i]))

\* C18: get_location_summaries returns the empty list when the guide text is
\* empty or the list of names is empty, an empty text with names included.
C18_EmptyInputEmptyList ==
    (rs_pc = "done" /\ (rs_text = <<>> \/ rs_names = <<>>)) =>
        /\ rs_summaries = <<>>
        /\ rs_tried = <<>>
        /\ rs_i = 0

C18_Witness ==
    /\ rs_pc = "done"
    /\ rs_text = <<>>
    /\ Len(rs_names) = 2
    /\ rs_summaries = <<>>

\* the line * **<name>:** <description>
IsBoldLabelLine(ln, name) ==
    LET head == <<"*", " ", "*", "*">> \o name \o <<":", "*", "*", " ">>
    IN  Len(ln) > Len(head) /\ SubSeq(ln, 1, Len(head)) = head

\* C20: for a line * **<name>:** <description> the bulleted-label strategy
\* finds <description>, and the sentence, paragraph and token-overlap
\* strategies are not consulted for that name.
C20_BoldLabelMatchedByBullet ==
    (rs_i >= 1 /\ \E k \in 1..Len(rs_lines) : IsBoldLabelLine(rs_lines[k], rs_names[rs_i])) =>
        /\ rs_pc \notin {"sentence", "paragraph", "token"}
        /\ \A k \in 1..Len(rs_tried) : rs_tried[k] \in {"label", "bullet"}

(***************************************************************************)
(* Properties of generate_place_summary (checked under SpecSummary)        *)
(***************************************************************************)
\* C15: an exception raised by the call of run_gen_response is caught and
\* the result is exactly "No short description available."; no exception
\* leaves generate_place_summary.
C15_ExceptionGivesLiteral ==
    /\ gs_pc \in {"start", "called", "raised", "done"}
    /\ (gs_pc = "done" /\ gs_response.kind = "raise") => gs_result = NoShortDescription

C15_Witness ==
    /\ gs_pc = "done"
    /\ gs_response.kind = "raise"
    /\ gs_result = NoShortDescription

\* the first line of the response, surrounding whitespace of the response
\* apart
FirstLineOf(text) ==
    LET t == Strip(text)
        nl == {i \in 1..Len(t) : t[i] = NL}
    IN  IF nl = {} THEN t ELSE SubSeq(t, 1, Min(nl) - 1)

HasNotFoundPhrase(line) ==
    \/ Contains(Lower(line), <<"n", "o", "t", " ", "i", "n", " ", "t", "h", "i", "s", " ",
                               "s", "p", "e", "c", "i", "f", "i", "c", " ", "b", "r", "i",
                               "e", "f", "i", "n", "g">>)
    \/ Contains(Lower(line), <<"n", "o", " ", "s", "h", "o", "r", "t", " ", "d", "e", "s",
                               "c", "r", "i", "p", "t", "i", "o", "n">>)

FirstWords(line, n) ==
    LET w == Words(line, 1)
    IN  Join(SubSeq(w, 1, n), <<" ">>) \o <<".", ".", ".">>

\* C16: the result depends on the first line of the response only: it is the
\* literal when that line is empty or holds one of the two phrases (in any
\* case of letters), and otherwise that line, cut to 15 words and "..." when
\* longer, whatever the later lines hold.
C16_FirstLineDecides ==
    (gs_pc = "done" /\ gs_response.kind = "text") =>
        LET line == FirstLineOf(gs_response.text)
        IN  gs_result =
               IF line = <<>> \/ HasNotFoundPhrase(line) THEN NoShortDescription
               ELSE IF WordCount(line) > 15 THEN FirstWords(line, 15)
               ELSE line

\* C17: the result is the literal, or a non-empty single line of at most 16
\* whitespace-delimited tokens: the first 15 words of the first line and
\* "..." when that line has more than 15 words, the first line unchanged
\* otherwise.
C17_LiteralOrShortLine ==
    (gs_pc = "done") =>
        \/ gs_result = NoShortDescription
        \/ /\ gs_response.kind = "text"
           /\ gs_result # <<>>
           /\ \A i \in 1..Len(gs_result) : gs_result[i] # NL
           /\ WordCount(gs_result) <= 16
           /\ LET line == FirstLineOf(gs_response.text)
              IN  IF WordCount(line) > 15
                  THEN gs_result = FirstWords(line, 15) /\ EndsWith(gs_result, <<".", ".", ".">>)
                  ELSE gs_result = line

\* a first line of sixteen words, followed by another line, came back as
\* fifteen words and the mark
C17_Witness ==
    /\ gs_pc = "done"
    /\ gs_response.kind = "text"
    /\ \E i \in 1..Len(gs_response.text) : gs_response.text[i] = NL
    /\ WordCount(FirstLineOf(gs_response.text)) = 16
    /\ WordCount(gs_result) = 15
    /\ EndsWith(gs_result, <<"o", ".", ".", ".">>)

(***************************************************************************)
(* Properties of the rate limiter (checked under SpecRate)                 *)
(***************************************************************************)
\* the requests of ip let through at a time t with from <= t < from + 3600
AdmittedIn(ip, from) ==
    {j \in 1..Len(rl_admitted[ip]) :
        rl_admitted[ip][j] >= from /\ rl_admitted[ip][j] < from + 3600}

\* no window of 3600 seconds holds more than 5 admitted requests of one IP
QuotaRespected ==
    \A ip \in DOMAIN rl_admitted :
        \A j \in 1..Len(rl_admitted[ip]) :
            Cardinality(AdmittedIn(ip, rl_admitted[ip][j])) <= 5

\* the requests of ip let through less than 3600 seconds before now
RecentlyAdmitted(ip, now) ==
    {j \in 1..Len(rl_admitted[ip]) : now - rl_admitted[ip][j] < 3600}

\* a non-cached request that finds 5 admitted requests of its IP in the last
\* 3600 seconds is answered 429 and admits nothing; another passes
SixthRefused ==
    (rl_count' # rl_count) =>
        LET ip == rl_last'.ip
            now == rl_last'.time
        IN  IF Cardinality(RecentlyAdmitted(ip, now)) >= 5
            THEN rl_last'.status = "429" /\ rl_admitted' = rl_admitted
            ELSE /\ rl_last'.status = "passed"
                 /\ rl_admitted'[ip] = Append(rl_admitted[ip], now)

\* a request leaves what is kept for the other IPs as it was, and a request
\* answered from the cache leaves everything as it was
OtherIpsUntouched ==
    IF rl_count' # rl_count
    THEN \A other \in DOMAIN rl_storage \ {rl_last'.ip} :
            /\ rl_storage'[other] = rl_storage[other]
            /\ rl_admitted'[other] = rl_admitted[other]
    ELSE rl_storage' = rl_storage /\ rl_admitted' = rl_admitted

\* C19: for each client IP at most 5 non-cached requests are admitted in any
\* window of 3600 seconds, a request that finds 5 admitted in the last 3600
\* seconds is answered 429, and a request of one IP changes nothing of what
\* is counted for another IP.
C19_FivePerHourPerIp ==
    /\ []QuotaRespected
    /\ [][SixthRefused /\ OtherIpsUntouched]_vars

\* one IP was refused its sixth request while the other IP, admitted in
\* between, keeps its own count
C19_Witness ==
    /\ rl_last.kind = "generate"
    /\ rl_last.status = "429"
    /\ Len(rl_admitted[rl_last.ip]) = 5
    /\ \E other \in DOMAIN rl_admitted \ {rl_last.ip} : Len(rl_admitted[other]) = 1

(***************************************************************************)
(* Properties of the shortening and rejection of candidates (checked under *)
(* SpecResolveCases)                                                       *)
(***************************************************************************)
\* the text up to the first sentence end that whitespace follows
FirstSentenceOf(c) ==
    LET ends == {p \in 1..(Len(c) - 1) : c[p] \in {".", "!", "?"} /\ IsSpace(c[p + 1])}
    IN  IF ends = {} THEN c ELSE SubSeq(c, 1, Min(ends))

\* the comma-separated clauses, trimmed, the empty ones left out
ClausesOf(c) == StripNonEmpty(SplitOn(c, <<",">>, 1))

\* the first two clauses joined, the only clause, or the text without clauses
TwoClauses(c) ==
    LET cl == ClausesOf(c)
    IN  IF Len(cl) >= 2 THEN cl[1] \o <<",", " ">> \o cl[2]
        ELSE IF Len(cl) = 1 THEN cl[1]
        ELSE c

TenWordsOf(t) == Join(SubSeq(Words(t, 1), 1, 10), <<" ">>)

\* C21: a kept candidate of more than 10 words becomes its first sentence and
\* "..." when that sentence has at most 10 words; otherwise its first two
\* comma-separated clauses joined and "..." when they have at most 10 words;
\* otherwise (no second clause, or the joined clauses exceed 10 words) the
\* first 10 words and "...".
C21_ShorteningPreference ==
    [][(rs_pc = "clean" /\ rs_pc' = "append") =>
          LET c == CleanDesc(rs_desc, rs_names[rs_i])
              first == FirstSentenceOf(c)
              short == TwoClauses(c)
          IN  WordCount(c) > 10 =>
                 rs_desc' =
                    IF WordCount(first) <= 10 THEN first \o <<".", ".", ".">>
                    ELSE IF WordCount(short) <= 10 THEN short \o <<".", ".", ".">>
                    ELSE TenWordsOf(short) \o <<".", ".", ".">>]_vars

\* two clauses of more than 10 words together came back cut to 10 words
C21_Witness ==
    /\ rs_pc = "done"
    /\ rs_names = << <<"R", "o">> >>
    /\ rs_summaries[1].desc = <<"a", " ", "b", " ", "c", " ", "d", " ", "e", " ", "f", " ",
                                "g", ",", " ", "h", " ", "i", " ", "j", ".", ".", ".">>

\* the cleaned candidate is empty, the name (in any case of letters), or
\* shorter than 3 words
Rejected(c, name) ==
    \/ c = <<>>
    \/ Lower(c) = Lower(name)
    \/ WordCount(c) < 3

\* C22: a candidate that after cleaning is empty, equals the name
\* case-insensitively or has fewer than 3 words is not returned: it is
\* treated as not found, and the record of that name carries the fallback
\* outcome.
C22_RejectedNeverReturned ==
    /\ [][(rs_pc = "clean" /\ Rejected(CleanDesc(rs_desc, rs_names[rs_i]), rs_names[rs_i]))
             => rs_desc' = <<>> /\ rs_pc' = "fallback"]_vars
    /\ [][rs_pc = "fallback" => rs_desc' = NoShortDescription /\ rs_pc' = "append"]_vars
    /\ [][rs_pc = "append"
             => rs_summaries' = Append(rs_summaries, [name |-> rs_names[rs_i], desc |-> rs_desc])]_vars

\* the sentence found for a name of three words was the name itself, and
\* the record carries the literal
C22_Witness ==
    /\ rs_pc = "done"
    /\ rs_names = << <<"R", "o", "m", "a", " ", "N", "o", "v", "a", " ", "A", "l", "t", "a">> >>
    /\ Lower(StrategySentence(rs_sentences, rs_names[1])) = Lower(rs_names[1])
    /\ rs_tried = <<"label", "bullet", "sentence">>
    /\ rs_summaries[1].desc = NoShortDescription

(***************************************************************************)
(* Properties of the token-overlap and sentence strategies (checked under  *)
(* SpecResolveCases)                                                       *)
(***************************************************************************)
\* the words longer than 2 characters of the accent-stripped, lower-cased name
LongTokens(name) == SelectSeq(WordTokens(Folded(name), 1), LAMBDA t : Len(t) > 2)

\* how many of the tokens occur in the accent-stripped, lower-cased sentence
TokensIn(sentence, tokens) ==
    Cardinality({k \in 1..Len(tokens) : Contains(Folded(sentence), tokens[k])})

\* C23: the token-overlap strategy yields a candidate if and only if the
\* name has a token longer than 2 characters and some sentence holds at
\* least 0.4 of the name's tokens; the candidate is then a sentence of the
\* highest score. A name without such a token gets no candidate from it.
C23_TokenOverlapThreshold ==
    [][(rs_pc = "token") =>
          LET tokens == LongTokens(rs_names[rs_i])
              n == Len(tokens)
              scored == {i \in 1..Len(rs_sentences) : rs_sentences[i] # <<>>}
              top == {i \in scored : \A j \in scored :
                         TokensIn(rs_sentences[j], tokens) <= TokensIn(rs_sentences[i], tokens)}
          IN  /\ (rs_desc' # <<>>) <=>
                    /\ n > 0
                    /\ \E i \in scored : 10 * TokensIn(rs_sentences[i], tokens) >= 4 * n
              /\ (rs_desc' # <<>>) => \E i \in top : rs_desc' = Strip(rs_sentences[i])
              /\ (n = 0) => rs_desc' = <<>>]_vars

\* the second sentence, with two of the three tokens, was taken rather than
\* the first, with one
C23_Witness ==
    /\ rs_pc = "clean"
    /\ rs_tried = <<"label", "bullet", "sentence", "paragraph", "token">>
    /\ Len(LongTokens(rs_names[rs_i])) = 3
    /\ Len(rs_sentences) = 2
    /\ TokensIn(rs_sentences[1], LongTokens(rs_names[rs_i])) = 1
    /\ rs_desc = Strip(rs_sentences[2])

\* the sentence holds the name or one of its aliases, compared in lower case
\* directly or with the accents stripped on both sides
MatchesEitherWay(sentence, name) ==
    LET aliases == alias_map(Lower(name))
    IN  \/ Contains(Lower(sentence), Lower(name))
        \/ Contains(Folded(sentence), Folded(name))
        \/ \E k \in 1..Len(aliases) :
              \/ Contains(Lower(sentence), aliases[k])
              \/ Contains(Folded(sentence), Folded(aliases[k]))

\* C24: the candidate of the sentence strategy is the earliest sentence that
\* holds the name or an alias under the direct or the accent-stripped
\* comparison: no later sentence is taken when an earlier one matches under
\* either.
C24_EarliestSentenceWins ==
    [][(rs_pc = "sentence" /\ rs_desc' # <<>>) =>
          LET hits == {i \in 1..Len(rs_sentences) :
                          MatchesEitherWay(rs_sentences[i], rs_names[rs_i])}
          IN  hits # {} /\ rs_desc' = Strip(rs_sentences[Min(hits)])]_vars

(***************************************************************************)
(* Properties of the returned descriptions (checked under                  *)
(* SpecResolveCases)                                                       *)
(***************************************************************************)
\* d begins, leading whitespace apart, with the name in any case of letters
\* and a separator
BeginsWithNameLabel(d, name) ==
    LET a == SkipSpaces(d, 1)
    IN  /\ MatchesCI(d, a, name)
        /\ At(d, SkipSpaces(d, a + Len(name))) \in {":", "-", EnDash, EmDash}

\* d begins with a bullet, emphasis or heading marker
BeginsWithMarker(d) == At(d, SkipSpaces(d, 1)) \in {"*", "-", Bullet, "_", "#"}

\* C25: no description taken from the text begins with the place name
\* followed by one of : - (en dash) (em dash), and none begins with a markdown
\* bullet, emphasis or heading marker.
C25_NoLeadingNameOrMarker ==
    \A i \in 1..Len(rs_summaries) :
        rs_summaries[i].desc # NoShortDescription =>
            /\ ~BeginsWithNameLabel(rs_summaries[i].desc, rs_summaries[i].name)
            /\ ~BeginsWithMarker(rs_summaries[i].desc)

\* C27: when the candidate of the first matching strategy is rejected by the
\* cleaning (empty, the name, or fewer than 3 words), no further strategy is
\* consulted for that name and its description is the fallback literal, also
\* when a later strategy would have given an acceptable candidate.
C27_NoRetryAfterRejection ==
    /\ [][(rs_pc = "clean" /\ rs_desc' = <<>>)
             => rs_pc' = "fallback" /\ rs_tried' = rs_tried /\ rs_i' = rs_i]_vars
    /\ [][rs_pc = "fallback"
             => /\ rs_pc' = "append"
                /\ rs_tried' = rs_tried
                /\ rs_i' = rs_i
                /\ rs_desc' = NoShortDescription]_vars
    /\ [][rs_pc = "append"
             => /\ rs_summaries'[Len(rs_summaries')].desc = rs_desc
                /\ rs_pc' = "done" \/ rs_i' = rs_i + 1]_vars

\* the labeled line gave a candidate of two words; the bulleted line, which
\* would have given an acceptable one, was never consulted
C27_Witness ==
    /\ rs_pc = "done"
    /\ Len(rs_names) = 1
    /\ rs_tried = <<"label">>
    /\ rs_summaries[1].desc = NoShortDescription
    /\ WordCount(StrategyBullet(rs_lines, rs_names[1])) >= 3
    /\ PostProcess(StrategyBullet(rs_lines, rs_names[1]), rs_names[1]) # <<>>

\* C28: every description returned is the fallback literal or has at least 3
\* whitespace-delimited words, after shortening too.
C28_AtLeastThreeWords ==
    \A i \in 1..Len(rs_summaries) :
        \/ rs_summaries[i].desc = NoShortDescription
        \/ WordCount(rs_summaries[i].desc) >= 3

(***************************************************************************)
(* Properties of cached and refused requests (checked under SpecRate)      *)
(***************************************************************************)
\* C26: a request answered from the cache returns cached = true, makes no
\* generation call, leaves rate_limit_storage as it was and is not refused,
\* also when a client has used up its 5 generations of the current window.
C26_CachedBypassesLimit ==
    [][(rl_last'.kind = "cached") =>
          /\ rl_last'.cached = TRUE
          /\ rl_last'.generated = FALSE
          /\ rl_storage' = rl_storage
          /\ rl_admitted' = rl_admitted
          /\ rl_count' = rl_count]_vars

\* a cached guide was served while a client had 5 generations within the
\* last 3600 seconds
C26_Witness ==
    /\ rl_last.kind = "cached"
    /\ rl_last.cached
    /\ \E ip \in DOMAIN rl_admitted : Cardinality(RecentlyAdmitted(ip, rl_now)) = 5

\* the stamps of a list that are less than 3600 seconds old
Unexpired(stamps, now) == SelectSeq(stamps, LAMBDA ts : now - ts < 3600)

\* C29: a refused request records no timestamp: the stored list of its IP is
\* the former one without the expired stamps; no stored list is longer than
\* 5; and a request that finds fewer than 5 admitted requests of its IP in
\* the preceding 3600 seconds is admitted.
C29_RefusalRecordsNothing ==
    /\ [](\A ip \in DOMAIN rl_storage : Len(rl_storage[ip]) <= 5)
    /\ [][(rl_count' # rl_count) =>
             LET ip == rl_last'.ip
                 now == rl_last'.time
             IN  /\ rl_last'.status = "429" =>
                       rl_storage'[ip] = Unexpired(rl_storage[ip], now)
                 /\ Cardinality(RecentlyAdmitted(ip, now)) < 5 =>
                       /\ rl_last'.status = "passed"
                       /\ rl_storage'[ip] = Append(Unexpired(rl_storage[ip], now), now)]_vars

\* a client was refused after one of its six admitted requests had expired:
\* its list still holds 5 stamps
C29_Witness ==
    /\ rl_last.kind = "generate"
    /\ rl_last.status = "429"
    /\ Len(rl_admitted[rl_last.ip]) = 6
    /\ Len(rl_storage[rl_last.ip]) = 5

(***************************************************************************)
(* Properties of the New Search page (checked under SpecUi)                *)
(***************************************************************************)
\* C30: after every run of the script, when the session holds
\* temp_generated_full it holds temp_dest equal to last_selected_dest and
\* temp_month equal to last_selected_month, the guide is the one generated
\* for them, and every saved row carries the destination and month its guide
\* was generated for.
C30_GuideKeepsItsSelection ==
    /\ ("temp_generated_full" \in DOMAIN ui_session) =>
          /\ {"temp_dest", "temp_month", "last_selected_dest", "last_selected_month"}
                \subseteq DOMAIN ui_session
          /\ ui_session["temp_dest"] = ui_session["last_selected_dest"]
          /\ ui_session["temp_month"] = ui_session["last_selected_month"]
          /\ ui_session["temp_generated_full"]
                = <<"guide", ui_session["temp_dest"], ui_session["temp_month"]>>
    /\ \A row \in ui_saved : row.text = <<"guide", row.dest, row.month>>

\* a guide is held for the selection shown while a guide of another
\* destination, generated earlier, is in the library
C30_Witness ==
    /\ "temp_generated_full" \in DOMAIN ui_session
    /\ ui_widgets # <<>>
    /\ ui_widgets.selected = "New Search"
    /\ ui_session["temp_dest"] = ui_widgets.destination
    /\ \E row \in ui_saved : row.dest # ui_session["temp_dest"]

====
